---- MODULE Spec2Model ----
(***************************************************************************)
(* Model of the candidate merge engine of the extractor families:         *)
(*   _merge_by_name   (name-only key,  src/chained_net_call.py:53-68)     *)
(*   _merge_ecs       (composite key,  src/Correction.py:1002-1032)       *)
(*   _merge_ec_lists  (composite key,  src/Correction.py:1407-1432)       *)
(* of the normalizer _norm_ec_list (src/chained_net_call.py:38-51,        *)
(* src/Correction.py:974-996), and of the inference calls of extract and  *)
(* validate (src/chained_net_call.py:30-36, 106-117, 127-141).            *)
(*                                                                         *)
(* Data representation.                                                    *)
(*   - A Python str is the sequence of its code points (<<97>> is "a");   *)
(*     len() is Len and the ordering used by sorted() is StrLess.         *)
(*   - A confidence is the number of thousandths (600 is 0.6).            *)
(*   - An int (a variant) is its sign and its decimal digits.             *)
(*   - An EC dict is a record; a list of EC is a sequence.                *)
(*   - The records of the two argument lists are objects: the merge       *)
(*     stores references to them in its accumulator `by` and overwrites   *)
(*     their fields in place.  The heap is the sequence a \o b, and a     *)
(*     reference is an index into it.                                      *)
(***************************************************************************)
EXTENDS Integers, Sequences, FiniteSets, TLC

VARIABLES
    kind,   \* which merge function the call site uses
    argA,   \* value of the first argument when the call was made
    argB,   \* value of the second argument when the call was made
    a,      \* the first argument list as the caller sees it now
    b,      \* the second argument list as the caller sees it now
    out,    \* the returned list
    pc,     \* "call" before the merge ran, "done" after it returned
    argC,   \* nested merges: the third list
    mid,    \* nested merges: the result of the inner merge
    left,   \* nested merges: merge(merge(A, B), C)
    right,  \* nested merges: merge(A, merge(B, C))
    raw,       \* normalizer: the raw item list as the caller sees it now
    argRaw,    \* normalizer: the raw item list when the call was made
    res,       \* normalizer: what _norm_ec_list(items) returned or raised
    res2,      \* normalizer: the same for the list it returned
    request,        \* extract / validate: the request of the call
    candidates,     \* validate: the candidate list of the call
    retry,          \* the retry parameter of the inference helper
    attempt,        \* invocations already made at the current call site
    calls,          \* every llm.invoke so far: site, prompts and response
    explained_json, \* extract: json.dumps of the paraphrase lines
    outcome,        \* how the call ended: returned, or raised which error
    frames,         \* two interleaved requests: the locals of each call
    globals,        \* the module-level names, each bound to an object of heap
    heap            \* the objects of the process: the module-level list and
                    \* the EC dicts the interleaved requests created so far

mergeVars == <<kind, argA, argB, a, b, out, pc>>

nestedVars == <<argC, mid, left, right>>

normVars == <<raw, argRaw, res, res2>>

extractVars ==
    <<request, candidates, retry, attempt, calls, explained_json, outcome>>

pairVars == <<frames, globals, heap>>

vars == <<mergeVars, nestedVars, normVars, extractVars, pairVars>>

----------------------------------------------------------------------------
(* Bounds *)

\* Largest total number of records in the two argument lists.
MaxLen == 3

----------------------------------------------------------------------------
(* Python primitives *)

\* str < str: lexicographic on code points, a proper prefix is smaller.
\* The first position where two sequences differ, which they must.
FirstDifference(s, t) ==
    CHOOSE i \in 1..Len(s) : s[i] # t[i] /\ \A j \in 1..(i - 1) : s[j] = t[j]

StrLess(s, t) ==
    IF Len(s) >= Len(t) /\ SubSeq(s, 1, Len(t)) = t THEN FALSE
    ELSE IF Len(s) < Len(t) /\ SubSeq(t, 1, Len(s)) = s THEN TRUE
    ELSE s[FirstDifference(s, t)] < t[FirstDifference(s, t)]

\* x in list
Contains(seq, x) == \E i \in 1..Len(seq) : seq[i] = x

\* list(dict.fromkeys(seq)): keeps the first occurrence of every entry.
RECURSIVE DictFromKeys(_)
DictFromKeys(seq) ==
    IF seq = <<>> THEN <<>>
    ELSE LET front == DictFromKeys(SubSeq(seq, 1, Len(seq) - 1))
             last  == seq[Len(seq)]
         IN IF Contains(front, last) THEN front ELSE Append(front, last)

\* Position of key in the insertion-ordered dict `by`, 0 when absent
\* (`key not in by`).
RECURSIVE Lookup(_, _)
Lookup(by, key) ==
    IF by = <<>> THEN 0
    ELSE IF by[Len(by)].key = key /\ Lookup(SubSeq(by, 1, Len(by) - 1), key) = 0
         THEN Len(by)
         ELSE Lookup(SubSeq(by, 1, Len(by) - 1), key)

----------------------------------------------------------------------------
(* Python ints                                                              *)
(*                                                                          *)
(* An int is its sign and the decimal digits of its magnitude, as           *)
(* characters and without leading zeros; zero is the digit 0, without sign. *)

IntVal(neg, d) == [neg |-> neg, d |-> d]

\* Decimal digits of a natural number of the model.
RECURSIVE Digits(_)
Digits(n) ==
    IF n < 10 THEN <<48 + n>> ELSE Digits(n \div 10) \o <<48 + (n % 10)>>

\* The int that a number of the model stands for.
IntOf(n) ==
    IF n < 0 THEN IntVal(TRUE, Digits(0 - n)) ELSE IntVal(FALSE, Digits(n))

\* Order of two magnitudes given by their digits.
MagLess(c, d) == Len(c) < Len(d) \/ (Len(c) = Len(d) /\ StrLess(c, d))

\* x < y on ints.
IntLess(x, y) ==
    IF x.neg # y.neg THEN x.neg
    ELSE IF x.neg THEN MagLess(y.d, x.d) ELSE MagLess(x.d, y.d)

----------------------------------------------------------------------------
(* Python floats                                                            *)
(*                                                                          *)
(* A float that float() returns is the number of its thousandths (600 is    *)
(* 0.6, 1000 is 1.0), or one of the values below.  A finite float whose     *)
(* magnitude is a million or more is Huge or 0 - Huge: the model keeps its  *)
(* order against every smaller float and against inf, the only use the code *)
(* has for the float it converted.  A float inside a raw item, which str()  *)
(* and int() read as well, is held exactly (see the raw values).            *)

\* float("inf"); 0 - Inf is float("-inf").
Inf == 2 * 1000000000

Huge == Inf - 1

\* The float nan, compared through FloatLess only.
NaN == 0 - (Inf + 1)

\* x < y on floats: false as soon as one side is nan.
FloatLess(x, y) == x # NaN /\ y # NaN /\ x < y

----------------------------------------------------------------------------
(* Per-field tie-break rules applied when the key is already stored *)

\* Variant of TakeIncoming with <= for <: an incoming string of the same
\* length replaces the stored one.
TakeIncomingOnTie(inc, cur) ==
    inc # <<>> /\ (cur = <<>> \/ Len(inc) <= Len(cur))

\* it[f] and (not cur[f] or len(it[f]) < len(cur[f])): the incoming string
\* replaces the stored one.
TakeIncoming(inc, cur) ==
    inc # <<>> /\ (cur = <<>> \/ Len(inc) < Len(cur))

\* cur[f] after the conditional assignment cur[f] = it[f].
ShorterNonEmpty(cur, inc) == IF TakeIncoming(inc, cur) THEN inc ELSE cur

\* Variants of MaxConfidence: the last confidence wins; the minimum is kept.
LastConfidence(cur, inc) == inc

MinConfidence(cur, inc) == IF FloatLess(inc, cur) THEN inc ELSE cur

\* cur["confidence"] = max(cur["confidence"], it["confidence"]), and
\* if it["confidence"] > cur["confidence"]: cur["confidence"] = it[...]:
\* the stored value stays unless the incoming one compares greater, which a
\* nan on either side never does.
MaxConfidence(cur, inc) == IF FloatLess(cur, inc) THEN inc ELSE cur

\* Variant of UnionGuards with the operands of + exchanged.
UnionGuardsIncomingFirst(cur, inc) == DictFromKeys(inc \o cur)

\* cur["guards"] = list(dict.fromkeys(cur["guards"] + it["guards"]))
UnionGuards(cur, inc) == DictFromKeys(cur \o inc)

\* Variant of MinVariant with > for <.
MaxVariant(cur, inc) == IF IntLess(cur, inc) THEN inc ELSE cur

\* if it["variant"] < cur["variant"]: cur["variant"] = it["variant"]
MinVariant(cur, inc) == IF IntLess(inc, cur) THEN inc ELSE cur

----------------------------------------------------------------------------
(* _merge_by_name: name-only key *)

\* The else-branch of push: the stored record cur after the record `it`
\* with the same name arrived.
MergeByNameUpdate(cur, it) ==
    [cur EXCEPT
        !.code_block     = ShorterNonEmpty(@, it.code_block),
        !.code_snippet   = ShorterNonEmpty(@, it.code_snippet),
        !.confidence     = MaxConfidence(@, it.confidence),
        !.conditioned    = @ \/ it.conditioned,
        !.guards         = UnionGuards(@, it.guards),
        !.further_expand = @ \/ it.further_expand]

\* One iteration of the loop of push, for the object referenced by r.
\* Variant of MergeByNameStep: on a collision the merged fields are written
\* into the arriving record instead of the stored one.
MergeByNameStepIntoIncoming(st, r) ==
    LET it == st.heap[r]
        nm == it.name
        i  == Lookup(st.by, nm)
    IN IF i = 0
       THEN [st EXCEPT !.by = Append(@, [key |-> nm, ref |-> r])]
       ELSE [st EXCEPT !.heap[r] = MergeByNameUpdate(st.heap[st.by[i].ref], it)]

\* st.heap holds the objects, st.by the accumulator in insertion order.
MergeByNameStep(st, r) ==
    LET it == st.heap[r]
        nm == it.name
        i  == Lookup(st.by, nm)
    IN IF i = 0
       THEN [st EXCEPT !.by = Append(@, [key |-> nm, ref |-> r])]
       ELSE [st EXCEPT !.heap[st.by[i].ref] = MergeByNameUpdate(@, it)]

\* push(lst) for the references from..to.
RECURSIVE MergeByNamePush(_, _, _)
MergeByNamePush(st, from, to) ==
    IF from > to THEN st
    ELSE MergeByNamePush(MergeByNameStep(st, from), from + 1, to)

\* Variant of SortedStrs that leaves the keys in insertion order.
InsertionOrder(keys) == keys

\* sorted(keys) for a list of strings (insertion sort; the order of equal
\* strings does not matter).
RECURSIVE SortedStrs(_)
SortedStrs(keys) ==
    IF keys = <<>> THEN <<>>
    ELSE LET front == SortedStrs(SubSeq(keys, 1, Len(keys) - 1))
             x     == keys[Len(keys)]
             n     == Cardinality({i \in 1..Len(front) : ~StrLess(x, front[i])})
         IN SubSeq(front, 1, n) \o <<x>> \o SubSeq(front, n + 1, Len(front))

\* The state of the heap and of `by` after push(a); push(b).
MergeByNameRun(la, lb) ==
    MergeByNamePush([heap |-> la \o lb, by |-> <<>>], 1, Len(la) + Len(lb))

\* [by[k] for k in sorted(by.keys())] on a final state.
MergeByNameResult(st) ==
    LET ks == SortedStrs([i \in 1..Len(st.by) |-> st.by[i].key])
    IN [i \in 1..Len(ks) |-> st.heap[st.by[Lookup(st.by, ks[i])].ref]]

_merge_by_name(la, lb) == MergeByNameResult(MergeByNameRun(la, lb))

\* The merge of src/newlambda.py: the same loop, its confidence line written
\* as if it["confidence"] > cur["confidence"].
_merge_by_name_keep_best(la, lb) == _merge_by_name(la, lb)

----------------------------------------------------------------------------
(* _merge_ecs: composite key (name, code_snippet, comment) *)

\* Variants of _merge_key: without the code_snippet; without the comment.
MergeKeyNoSnippet(ec) == <<ec.name, ec.comment>>

MergeKeyNoComment(ec) == <<ec.name, ec.code_snippet>>

\* (ec["name"], ec["code_snippet"], ec.get("comment", ""))
_merge_key(ec) == <<ec.name, ec.code_snippet, ec.comment>>

\* The else-branch of push in _merge_ecs.
MergeEcsUpdate(cur, it) ==
    [cur EXCEPT
        !.code_block     = ShorterNonEmpty(@, it.code_block),
        !.code_snippet   = ShorterNonEmpty(@, it.code_snippet),
        !.confidence     = MaxConfidence(@, it.confidence),
        !.conditioned    = @ \/ it.conditioned,
        !.further_expand = @ \/ it.further_expand,
        !.guards         = UnionGuards(@, it.guards),
        !.variant        = MinVariant(@, it.variant)]

\* One iteration of the loop of push in _merge_ecs.
MergeEcsStep(st, r) ==
    LET it  == st.heap[r]
        key == _merge_key(it)
        i   == Lookup(st.by, key)
    IN IF i = 0
       THEN [st EXCEPT !.by = Append(@, [key |-> key, ref |-> r])]
       ELSE [st EXCEPT !.heap[st.by[i].ref] = MergeEcsUpdate(@, it)]

RECURSIVE MergeEcsPush(_, _, _)
MergeEcsPush(st, from, to) ==
    IF from > to THEN st
    ELSE MergeEcsPush(MergeEcsStep(st, from), from + 1, to)

\* The sort key lambda ec: (ec["code_snippet"], ec["variant"], ec["name"])
\* and the tuple comparison k(x) < k(y).
SortKey(ec) == <<ec.code_snippet, ec.variant, ec.name>>

SortKeyLess(x, y) ==
    \/ StrLess(x[1], y[1])
    \/ x[1] = y[1] /\ IntLess(x[2], y[2])
    \/ x[1] = y[1] /\ x[2] = y[2] /\ StrLess(x[3], y[3])

\* sorted(values, key=SortKey): stable, records with equal sort keys keep
\* the order they have in `values`.
RECURSIVE SortedBySortKey(_)
SortedBySortKey(values) ==
    IF values = <<>> THEN <<>>
    ELSE LET front == SortedBySortKey(SubSeq(values, 1, Len(values) - 1))
             x     == values[Len(values)]
             n     == Cardinality({i \in 1..Len(front) :
                          ~SortKeyLess(SortKey(x), SortKey(front[i]))})
         IN SubSeq(front, 1, n) \o <<x>> \o SubSeq(front, n + 1, Len(front))

\* by.values(): the stored objects in insertion order.
ByValues(st) == [i \in 1..Len(st.by) |-> st.heap[st.by[i].ref]]

MergeEcsRun(la, lb) ==
    MergeEcsPush([heap |-> la \o lb, by |-> <<>>], 1, Len(la) + Len(lb))

_merge_ecs(la, lb) == SortedBySortKey(ByValues(MergeEcsRun(la, lb)))

----------------------------------------------------------------------------
(* _merge_ec_lists: composite key, no code_snippet rule *)

_merge_key_with_comment(ec) == <<ec.name, ec.code_snippet, ec.comment>>

MergeEcListsUpdate(cur, it) ==
    [cur EXCEPT
        !.code_block     = ShorterNonEmpty(@, it.code_block),
        !.confidence     = MaxConfidence(@, it.confidence),
        !.guards         = UnionGuards(@, it.guards),
        !.conditioned    = @ \/ it.conditioned,
        !.further_expand = @ \/ it.further_expand,
        !.variant        = MinVariant(@, it.variant)]

MergeEcListsStep(st, r) ==
    LET it  == st.heap[r]
        key == _merge_key_with_comment(it)
        i   == Lookup(st.by, key)
    IN IF i = 0
       THEN [st EXCEPT !.by = Append(@, [key |-> key, ref |-> r])]
       ELSE [st EXCEPT !.heap[st.by[i].ref] = MergeEcListsUpdate(@, it)]

RECURSIVE MergeEcListsPush(_, _, _)
MergeEcListsPush(st, from, to) ==
    IF from > to THEN st
    ELSE MergeEcListsPush(MergeEcListsStep(st, from), from + 1, to)

MergeEcListsRun(la, lb) ==
    MergeEcListsPush([heap |-> la \o lb, by |-> <<>>], 1, Len(la) + Len(lb))

_merge_ec_lists(la, lb) == SortedBySortKey(ByValues(MergeEcListsRun(la, lb)))

----------------------------------------------------------------------------
(* Inputs: normalized candidate lists *)

\* Strings that occur in the inputs.
Empty   == <<>>
Str_a   == <<97>>
Str_b   == <<98>>
Str_c   == <<99>>
Str_ab  == <<97, 98>>
Str_s   == <<115>>
Str_t   == <<116>>
Str_ss  == <<115, 115>>
Str_x   == <<120>>
Str_y   == <<121>>
Str_xx  == <<120, 120>>
Str_i   == <<105>>
Str_u   == <<117>>

\* An EC of the name-only families, as _norm_ec_list builds it.
EC(name, code_snippet, code_block, further_expand, confidence, conditioned, guards) ==
    [name |-> name, code_snippet |-> code_snippet, code_block |-> code_block,
     further_expand |-> further_expand, confidence |-> confidence,
     conditioned |-> conditioned, guards |-> guards]

\* An EC of the composite-key families: with comment and variant.
ECV(name, code_snippet, code_block, further_expand, confidence, conditioned, guards, comment, variant) ==
    [name |-> name, code_snippet |-> code_snippet, code_block |-> code_block,
     further_expand |-> further_expand, confidence |-> confidence,
     conditioned |-> conditioned, guards |-> guards,
     comment |-> comment, variant |-> variant]

\* Normalized records a name-only merge is called with.
NameRecords ==
    { EC(Str_a,  Empty,  Empty,  FALSE, 0,    FALSE, <<>>),
      EC(Str_a,  Str_ss, Str_x,  FALSE, 600,  FALSE, <<Str_a, Str_b>>),
      EC(Str_a,  Str_s,  Str_y,  FALSE, 900,  TRUE,  <<Str_b, Str_c>>),
      EC(Str_a,  Str_t,  Str_xx, TRUE,  600,  FALSE, <<Str_a, Str_a>>),
      EC(Str_b,  Str_s,  Empty,  FALSE, 0,    FALSE, <<Str_a, Str_a>>),
      EC(Str_b,  Empty,  Str_x,  FALSE, 1000, FALSE, <<>>),
      EC(Str_ab, Str_s,  Str_x,  FALSE, 600,  FALSE, <<Str_c>>) }

\* Records a composite-key merge is called with, as the normalizer of
\* src/Correction.py:974-996 returns them: its clamp keeps a nan confidence.
VariantRecords ==
    { ECV(Str_a, Str_s, Str_x,  FALSE, 600,  FALSE, <<Str_a, Str_b>>, Str_i, IntOf(1)),
      ECV(Str_a, Str_s, Str_y,  FALSE, 900,  TRUE,  <<Str_b, Str_c>>, Str_i, IntOf(0)),
      ECV(Str_a, Str_s, Empty,  FALSE, 0,    FALSE, <<>>,             Str_u, IntOf(0)),
      ECV(Str_a, Str_s, Str_xx, TRUE,  600,  FALSE, <<Str_a, Str_a>>, Str_u, IntOf(2)),
      ECV(Str_b, Str_s, Str_x,  FALSE, 1000, FALSE, <<Str_c>>,        Str_i, IntOf(0)),
      ECV(Str_a, Str_t, Str_xx, FALSE, 600,  FALSE, <<>>,             Str_i, IntOf(0)),
      ECV(Str_a, Empty, Empty,  FALSE, 0,    FALSE, <<Str_a, Str_a>>, Empty, IntOf(0)),
      ECV(Str_a, Str_s, Str_x,  FALSE, NaN,  FALSE, <<>>,             Str_i, IntOf(1)) }

Kinds == {"by_name", "ecs", "ec_lists"}

Records(k) == IF k = "by_name" THEN NameRecords ELSE VariantRecords

\* Lists of at most n records of S.
ListsUpTo(S, n) == UNION {[1..m -> S] : m \in 0..n}

----------------------------------------------------------------------------
(* Variables of the other specifications while a single merge call runs *)

NestedIdle ==
    /\ argC = <<>>
    /\ mid = <<>>
    /\ left = <<>>
    /\ right = <<>>

NormIdle ==
    /\ raw = <<>>
    /\ argRaw = <<>>
    /\ res = <<>>
    /\ res2 = <<>>

NoOutcome == [status |-> "", err |-> ""]

\* The list the module-level name DEFAULT_DENYLIST is bound to at import
\* (src/chained_net_call.py has none).
DEFAULT_DENYLIST ==
    << "System.out.println", "logger.info", "logger.debug", "logger.trace",
       "Objects.requireNonNull", "Collections.emptyList" >>

\* The module after import: the objects that exist (the list is the first)
\* and the module-level names, each bound to the position of its object.
ModuleHeap == << DEFAULT_DENYLIST >>

ModuleGlobals == [DEFAULT_DENYLIST |-> 1]

PairIdle ==
    /\ frames = <<>>
    /\ globals = ModuleGlobals
    /\ heap = ModuleHeap

ExtractIdle ==
    /\ request = <<>>
    /\ candidates = <<>>
    /\ retry = TRUE
    /\ attempt = 0
    /\ calls = <<>>
    /\ explained_json = <<>>
    /\ outcome = NoOutcome

----------------------------------------------------------------------------
(* The merge call *)

Init ==
    /\ kind \in Kinds
    /\ argA \in ListsUpTo(Records(kind), MaxLen)
    /\ argB \in ListsUpTo(Records(kind), MaxLen - Len(argA))
    /\ a = argA
    /\ b = argB
    /\ out = <<>>
    /\ pc = "call"
    /\ NestedIdle
    /\ NormIdle
    /\ ExtractIdle
    /\ PairIdle

\* What the caller holds after the call: the returned list and the two
\* argument lists, whose records the merge overwrote in place.
Return(st, result) ==
    /\ out' = result
    /\ a' = SubSeq(st.heap, 1, Len(a))
    /\ b' = SubSeq(st.heap, Len(a) + 1, Len(a) + Len(b))
    /\ pc' = "done"
    /\ UNCHANGED <<kind, argA, argB>>
    /\ UNCHANGED <<nestedVars, normVars, extractVars, pairVars>>

MergeByNameCall ==
    /\ pc = "call"
    /\ kind = "by_name"
    /\ LET st == MergeByNameRun(a, b)
       IN Return(st, MergeByNameResult(st))

MergeEcsCall ==
    /\ pc = "call"
    /\ kind = "ecs"
    /\ LET st == MergeEcsRun(a, b)
       IN Return(st, SortedBySortKey(ByValues(st)))

MergeEcListsCall ==
    /\ pc = "call"
    /\ kind = "ec_lists"
    /\ LET st == MergeEcListsRun(a, b)
       IN Return(st, SortedBySortKey(ByValues(st)))

Next ==
    \/ MergeByNameCall
    \/ MergeEcsCall
    \/ MergeEcListsCall

Spec == Init /\ [][Next]_vars

----------------------------------------------------------------------------
(* Vocabulary of the properties *)

Done == pc = "done"

\* The input records in A-then-B arrival order, as they were passed in.
Inputs == argA \o argB

\* The key the call's merge function groups by.
KeyOf(ec) ==
    IF kind = "by_name" THEN <<ec.name>>
    ELSE <<ec.name, ec.code_snippet, ec.comment>>

KeysOf(list) == {KeyOf(list[i]) : i \in 1..Len(list)}

\* The input records with key k, in arrival order.
WithKey(k) == SelectSeq(Inputs, LAMBDA ec : KeyOf(ec) = k)

\* The heap and the accumulator after push(x); push(y) of the merge function
\* of the call: _merge_ecs for extract_object_instantiations, _merge_ec_lists
\* where it is called, the merge by name everywhere else.
MergeRun(x, y) ==
    IF kind = "ecs" THEN MergeEcsRun(x, y)
    ELSE IF kind = "ec_lists" THEN MergeEcListsRun(x, y)
    ELSE MergeByNameRun(x, y)

\* The list the merge function returns from that state.
MergeResult(st) ==
    IF kind \in {"ecs", "ec_lists"} THEN SortedBySortKey(ByValues(st))
    ELSE MergeByNameResult(st)

\* merge(x, y) with the merge function of the call.
Merge(x, y) ==
    IF kind = "ecs" THEN _merge_ecs(x, y)
    ELSE IF kind = "ec_lists" THEN _merge_ec_lists(x, y)
    ELSE _merge_by_name(x, y)

Range(seq) == {seq[i] : i \in 1..Len(seq)}

NoRepeat(seq) == \A i, j \in 1..Len(seq) : seq[i] = seq[j] => i = j

\* The first of the shortest non-empty strings of a list, "" if there is none.
FirstShortest(strs) ==
    LET cand == {i \in 1..Len(strs) :
                    /\ strs[i] # <<>>
                    /\ \A j \in 1..Len(strs) :
                          strs[j] # <<>> => Len(strs[i]) <= Len(strs[j])}
    IN IF cand = {} THEN <<>>
       ELSE strs[CHOOSE i \in cand : \A j \in cand : i <= j]

\* The entries of a list in first-seen order, later repetitions removed.
RECURSIVE FirstSeen(_)
FirstSeen(seq) ==
    IF seq = <<>> THEN <<>>
    ELSE <<seq[1]>> \o FirstSeen(SelectSeq(Tail(seq), LAMBDA x : x # seq[1]))

\* Concatenation of the guards lists of a list of records.
RECURSIVE AllGuards(_)
AllGuards(recs) ==
    IF recs = <<>> THEN <<>> ELSE recs[1].guards \o AllGuards(Tail(recs))

Field(recs, f) == [i \in 1..Len(recs) |-> recs[i][f]]

\* The least int of a set of ints.
MinOf(S) == CHOOSE x \in S : \A y \in S : ~IntLess(y, x)

\* A normalized list in the sense of the specification: every record has a
\* non-empty name, a confidence in [0, 1] and, when it has one, a variant
\* that is not negative.  A record with a nan confidence, which the
\* composite-key normalizer returns, is not normalized.
Normalized(recs) ==
    \A i \in 1..Len(recs) :
        /\ recs[i].name # <<>>
        /\ recs[i].confidence \in 0..1000
        /\ "variant" \in DOMAIN recs[i] => ~recs[i].variant.neg

----------------------------------------------------------------------------
(* C1: merge commutativity *)

\* merge(B, A) for the call merge(A, B).
Swapped == Merge(argB, argA)

\* C1 as stated: for normalized lists and the name-only or the composite
\* key, merge(A, B) and merge(B, A) are equal lists: same records, same field
\* values, same order.
C1_MergeCommutes ==
    (Done /\ kind \in {"by_name", "ecs"} /\ Normalized(Inputs)) => out = Swapped

\* Two merged records agree in everything but the first-seen tie-breaks.
SameUpToTies(x, y) ==
    /\ KeyOf(x) = KeyOf(y)
    /\ x.confidence = y.confidence
    /\ x.conditioned = y.conditioned
    /\ x.further_expand = y.further_expand
    /\ Range(x.guards) = Range(y.guards)
    /\ Len(x.guards) = Len(y.guards)
    /\ Len(x.code_block) = Len(y.code_block)
    /\ Len(x.code_snippet) = Len(y.code_snippet)
    /\ kind = "ecs" => x.variant = y.variant

\* The position of a record in the output order.
OrderKey(ec) == IF kind = "by_name" THEN <<ec.name>> ELSE SortKey(ec)

\* C1 amended: for normalized lists, merge(A, B) and merge(B, A) hold the
\* same keys, the records of a key agree up to the first-seen tie-breaks
\* (same confidence, flags and variant, same set and number of guards,
\* code_block and code_snippet of the same length), and the two lists carry
\* the same sequence of sort keys.
C1_MergeCommutesUpToTies ==
    (Done /\ kind \in {"by_name", "ecs"} /\ Normalized(Inputs)) =>
        /\ Len(out) = Len(Swapped)
        /\ \A i \in 1..Len(out) : \E j \in 1..Len(Swapped) :
              SameUpToTies(out[i], Swapped[j])
        /\ \A i \in 1..Len(out) : OrderKey(out[i]) = OrderKey(Swapped[i])

\* A call whose two lists share a key, and whose result depends on the
\* argument order.
C1_Witness ==
    /\ Done
    /\ kind \in {"by_name", "ecs"}
    /\ Normalized(Inputs)
    /\ KeysOf(argA) \cap KeysOf(argB) # {}
    /\ out # Swapped

----------------------------------------------------------------------------
(* C2: merge idempotence *)

\* C2: for the call merge(A, []) with a normalized list A, merge(A, A)
\* returns the same list: A deduplicated by the key.
C2_MergeIdempotent ==
    (Done /\ kind \in {"by_name", "ecs"} /\ argB = <<>> /\ Normalized(argA)) =>
        Merge(argA, argA) = out

----------------------------------------------------------------------------
(* C3: one record per key, no key lost or invented *)

\* C3: the returned records have pairwise distinct keys, and their keys are
\* exactly the keys of the records of A and B.
C3_OneRecordPerKey ==
    (Done /\ kind \in {"by_name", "ecs"}) =>
        /\ NoRepeat([i \in 1..Len(out) |-> KeyOf(out[i])])
        /\ KeysOf(out) = KeysOf(Inputs)

\* A call with a repeated key and with two distinct keys.
C3_Witness ==
    /\ Done
    /\ kind \in {"by_name", "ecs"}
    /\ Len(Inputs) = 3
    /\ Len(out) = 2

----------------------------------------------------------------------------
(* C4: the composite key keeps same-name records with different comments *)

\* Two input records with the same name and code_snippet, different comment.
DeliberateDuplicates(x, y) ==
    /\ x.name = y.name
    /\ x.code_snippet = y.code_snippet
    /\ x.comment # y.comment

\* C4: both records of such a pair have a record of their own in the output
\* of the composite-key merge, and the name-only merge of the two returns
\* exactly one record.
C4_CompositeKeepsDuplicates ==
    (Done /\ kind = "ecs") =>
        \A i, j \in 1..Len(Inputs) :
            DeliberateDuplicates(Inputs[i], Inputs[j]) =>
                /\ \E m, n \in 1..Len(out) :
                      /\ m # n
                      /\ KeyOf(out[m]) = KeyOf(Inputs[i])
                      /\ KeyOf(out[n]) = KeyOf(Inputs[j])
                /\ Len(_merge_by_name(<<Inputs[i]>>, <<Inputs[j]>>)) = 1

\* A composite-key call that received such a pair, one record in each list.
C4_Witness ==
    /\ Done
    /\ kind = "ecs"
    /\ \E i \in 1..Len(argA), j \in 1..Len(argB) :
          DeliberateDuplicates(argA[i], argB[j])

----------------------------------------------------------------------------
(* C5: shortest non-empty code_block / code_snippet, first seen on ties *)

\* C5: the code_block of the record of a key is the first of the shortest
\* non-empty code_block values of the inputs with that key (empty only if
\* all are empty); under the name-only key the same holds for code_snippet.
C5_ShortestNonEmpty ==
    (Done /\ kind \in {"by_name", "ecs"}) =>
        \A i \in 1..Len(out) :
            LET same == WithKey(KeyOf(out[i]))
            IN /\ out[i].code_block = FirstShortest(Field(same, "code_block"))
               /\ kind = "by_name" =>
                     out[i].code_snippet =
                        FirstShortest(Field(same, "code_snippet"))

\* A key arrived with two different code_block values of the same length,
\* after or before an empty one.
C5_Witness ==
    /\ Done
    /\ kind \in {"by_name", "ecs"}
    /\ \E i \in 1..Len(out) :
          LET blocks == Field(WithKey(KeyOf(out[i])), "code_block")
          IN /\ Len(blocks) = 3
             /\ \E m, n \in 1..3 :
                   /\ m < n
                   /\ blocks[m] # blocks[n]
                   /\ blocks[m] # <<>>
                   /\ Len(blocks[m]) = Len(blocks[n])
                   /\ out[i].code_block = blocks[m]
             /\ \E m \in 1..3 : blocks[m] = <<>>

----------------------------------------------------------------------------
(* C6: maximum confidence *)

\* C6: the confidence of the record of a key is the maximum confidence of
\* the inputs with that key: it is one of them, it is a number, and no input
\* confidence of the key is greater; it lies in [0, 1] (0..1000 thousandths)
\* when the input confidences of the key do.
C6_MaxConfidence ==
    (Done /\ kind \in {"by_name", "ecs"}) =>
        \A i \in 1..Len(out) :
            LET confs == Range(Field(WithKey(KeyOf(out[i])), "confidence"))
            IN /\ out[i].confidence \in confs
               /\ \A c \in confs :
                     c # NaN => (out[i].confidence # NaN /\ c <= out[i].confidence)
               /\ confs \subseteq 0..1000 => out[i].confidence \in 0..1000

----------------------------------------------------------------------------
(* C7: guards are united in first-seen order *)

\* C7: when two or more inputs share a key, the guards of the merged record
\* are the concatenation of their guards in arrival order with every later
\* repetition removed.
C7_GuardUnionOrder ==
    (Done /\ kind \in {"by_name", "ecs"}) =>
        \A i \in 1..Len(out) :
            LET same == WithKey(KeyOf(out[i]))
            IN Len(same) >= 2 => out[i].guards = FirstSeen(AllGuards(same))

\* Guards [a, b] merged with [b, c] gave [a, b, c].
C7_Witness ==
    /\ Done
    /\ kind \in {"by_name", "ecs"}
    /\ \E i \in 1..Len(argA), j \in 1..Len(argB) :
          /\ KeyOf(argA[i]) = KeyOf(argB[j])
          /\ argA[i].guards = <<Str_a, Str_b>>
          /\ argB[j].guards = <<Str_b, Str_c>>
    /\ \E i \in 1..Len(out) : out[i].guards = <<Str_a, Str_b, Str_c>>

----------------------------------------------------------------------------
(* C8: no guards list of the result repeats an entry *)

\* C8: in every returned record the guards list has no duplicate entries,
\* also when the key of the record arrived once only.
C8_GuardsNoDuplicates ==
    (Done /\ kind \in {"by_name", "ecs"}) =>
        \A i \in 1..Len(out) : NoRepeat(out[i].guards)

----------------------------------------------------------------------------
(* C9: minimum variant under the composite key *)

\* C9: under the composite key (_merge_ecs and _merge_ec_lists) the variant
\* of the record of a key is the minimum variant of the inputs with that
\* key, and is not negative.
C9_MinVariant ==
    (Done /\ kind \in {"ecs", "ec_lists"}) =>
        \A i \in 1..Len(out) :
            /\ out[i].variant =
                  MinOf(Range(Field(WithKey(KeyOf(out[i])), "variant")))
            /\ ~out[i].variant.neg

\* The higher variant of a key arrived first and the lower one later.
C9_Witness ==
    /\ Done
    /\ kind \in {"ecs", "ec_lists"}
    /\ \E i \in 1..Len(out) :
          LET vs == Field(WithKey(KeyOf(out[i])), "variant")
          IN /\ Len(vs) >= 2
             /\ IntLess(vs[2], vs[1])
             /\ out[i].variant = vs[2]

----------------------------------------------------------------------------
(* C10: output ordering *)

\* C10: the name-only result is strictly increasing in name; the composite
\* result is non-decreasing in (code_snippet, variant, name), the variant
\* being the one the record has after the merge.
C10_OutputOrdering ==
    (Done /\ kind \in {"by_name", "ecs"}) =>
        \A i \in 1..(Len(out) - 1) :
            IF kind = "by_name"
            THEN StrLess(out[i].name, out[i + 1].name)
            ELSE ~SortKeyLess(SortKey(out[i + 1]), SortKey(out[i]))

\* Records arrived in decreasing order of their sort keys and were returned
\* in increasing order.
C10_Witness ==
    /\ Done
    /\ kind \in {"by_name", "ecs"}
    /\ Len(Inputs) = 3
    /\ Len(out) = 3
    /\ \A i \in 1..3 : out[i] = Inputs[4 - i]
    /\ \A i \in 1..2 : OrderKey(out[i]) # OrderKey(out[i + 1])

----------------------------------------------------------------------------
(* C11: arrival-order independence for pairwise distinct keys *)

\* The permutations of 1..n.
Perms(n) == {p \in [1..n -> 1..n] : \A i, j \in 1..n : p[i] = p[j] => i = j}

\* C11: when the input records have pairwise distinct keys, the merge returns
\* the same sequence for every arrival order of the records and every split
\* of them between A and B, under the name-only and under the composite key.
C11_ArrivalOrderIndependent ==
    (Done /\ kind \in {"by_name", "ecs"}
          /\ NoRepeat([i \in 1..Len(Inputs) |-> KeyOf(Inputs[i])])) =>
        \A p \in Perms(Len(Inputs)), k \in 0..Len(Inputs) :
            LET q == [i \in 1..Len(Inputs) |-> Inputs[p[i]]]
            IN Merge(SubSeq(q, 1, k), SubSeq(q, k + 1, Len(q))) = out

----------------------------------------------------------------------------
(* C12: the identity fields are frozen *)

\* The heap and the accumulator after the first n records were pushed.
AfterSteps(n) ==
    IF kind = "by_name"
    THEN MergeByNamePush([heap |-> Inputs, by |-> <<>>], 1, n)
    ELSE MergeEcsPush([heap |-> Inputs, by |-> <<>>], 1, n)

\* C12: after every merge step every record still has the name (and, under
\* the composite key, the comment) it arrived with, and every stored record
\* still has the key under which it was inserted.
C12_IdentityFieldsFrozen ==
    (Done /\ kind \in {"by_name", "ecs"}) =>
        \A n \in 0..Len(Inputs) :
            LET st == AfterSteps(n)
            IN /\ \A r \in 1..Len(Inputs) :
                     /\ st.heap[r].name = Inputs[r].name
                     /\ kind = "ecs" => st.heap[r].comment = Inputs[r].comment
               /\ \A i \in 1..Len(st.by) :
                     /\ KeyOf(st.heap[st.by[i].ref]) = KeyOf(Inputs[st.by[i].ref])
                     /\ kind = "ecs" =>
                           st.by[i].key = KeyOf(st.heap[st.by[i].ref])
                     /\ kind = "by_name" =>
                           <<st.by[i].key>> = KeyOf(st.heap[st.by[i].ref])

\* A composite-key call in which a stored record was overwritten by a later
\* record with the same key.
C12_Witness ==
    /\ Done
    /\ kind = "ecs"
    /\ Len(out) < Len(Inputs)
    /\ a \o b # Inputs

----------------------------------------------------------------------------
(* Nested merges of three lists: merge(merge(A, B), C) and                 *)
(* merge(A, merge(B, C)), each call made on the values of its arguments    *)

NestedInit ==
    /\ kind \in {"by_name", "ecs"}
    /\ argA \in ListsUpTo(Records(kind), MaxLen)
    /\ argB \in ListsUpTo(Records(kind), MaxLen - Len(argA))
    /\ argC \in ListsUpTo(Records(kind), MaxLen - Len(argA) - Len(argB))
    /\ a = <<>>
    /\ b = <<>>
    /\ out = <<>>
    /\ mid = <<>>
    /\ left = <<>>
    /\ right = <<>>
    /\ pc = "call"
    /\ NormIdle
    /\ ExtractIdle
    /\ PairIdle

\* mid = merge(A, B)
MergeAB ==
    /\ pc = "call"
    /\ mid' = Merge(argA, argB)
    /\ pc' = "ab"
    /\ UNCHANGED <<kind, argA, argB, argC, a, b, out, left, right>>
    /\ UNCHANGED <<normVars, extractVars, pairVars>>

\* left = merge(mid, C); the intermediate list is the sorted result.
MergeMidC ==
    /\ pc = "ab"
    /\ left' = Merge(mid, argC)
    /\ pc' = "left"
    /\ UNCHANGED <<kind, argA, argB, argC, a, b, out, mid, right>>
    /\ UNCHANGED <<normVars, extractVars, pairVars>>

\* mid = merge(B, C)
MergeBC ==
    /\ pc = "left"
    /\ mid' = Merge(argB, argC)
    /\ pc' = "bc"
    /\ UNCHANGED <<kind, argA, argB, argC, a, b, out, left, right>>
    /\ UNCHANGED <<normVars, extractVars, pairVars>>

\* right = merge(A, mid)
MergeAMid ==
    /\ pc = "bc"
    /\ right' = Merge(argA, mid)
    /\ pc' = "done"
    /\ UNCHANGED <<kind, argA, argB, argC, a, b, out, mid, left>>
    /\ UNCHANGED <<normVars, extractVars, pairVars>>

NestedNext ==
    \/ MergeAB
    \/ MergeMidC
    \/ MergeBC
    \/ MergeAMid

SpecNested == NestedInit /\ [][NestedNext]_vars

----------------------------------------------------------------------------
(* C13: merge associativity *)

\* C13: for normalized lists and the name-only or the composite key,
\* merge(merge(A, B), C) = merge(A, merge(B, C)).
C13_MergeAssociative ==
    (Done /\ Normalized(argA \o argB \o argC)) => left = right

----------------------------------------------------------------------------
(* Raw values: what json.loads can put under a key of a raw item            *)
(*                                                                          *)
(* A raw value is a record [t, s, n, l, neg, d]: t is the Python type, s    *)
(* the payload of a str, l that of a list of str, n that of a bool (0 / 1). *)
(* An int has its sign neg and its digits d.  A finite float is the         *)
(* shortest decimal that reads back as it, the one repr() prints: the sign  *)
(* neg, the significant digits d (no leading and no trailing zero, none for *)
(* 0.0) and the position n of the point, the float being 0.d * 10^n.        *)
(* t = "inf" with its sign and t = "nan" are the other floats.  t =         *)
(* "missing" stands for an absent key.                                      *)

RV(t, s, n, l, neg, d) == [t |-> t, s |-> s, n |-> n, l |-> l, neg |-> neg, d |-> d]

Missing     == RV("missing", <<>>, 0, <<>>, FALSE, <<>>)
PyNone      == RV("none", <<>>, 0, <<>>, FALSE, <<>>)
PyNaN       == RV("nan", <<>>, 0, <<>>, FALSE, <<>>)
RStr(s)     == RV("str", s, 0, <<>>, FALSE, <<>>)
RBool(bv)   == RV("bool", <<>>, IF bv THEN 1 ELSE 0, <<>>, FALSE, <<>>)
RList(l)    == RV("list", <<>>, 0, l, FALSE, <<>>)

\* An int, given as an int and as a number of the model.
RIntVal(v)  == RV("int", <<>>, 0, <<>>, v.neg, v.d)

RInt(n)     == RIntVal(IntOf(n))

\* The float 0.d * 10^point with its sign, and the float inf.
RDecimal(neg, d, point) == RV("float", <<>>, point, <<>>, neg, d)

RInf(neg)   == RV("inf", <<>>, 0, <<>>, neg, <<>>)

\* A run of digits without its trailing zeros (one digit is kept).
RECURSIVE NoTrailingZeros(_)
NoTrailingZeros(s) ==
    IF Len(s) > 1 /\ s[Len(s)] = 48
    THEN NoTrailingZeros(SubSeq(s, 1, Len(s) - 1)) ELSE s

\* The float that a number c of thousandths, Inf or NaN stands for.
RFloat(c) ==
    IF c = NaN THEN PyNaN
    ELSE IF c \in {Inf, 0 - Inf} THEN RInf(c < 0)
    ELSE IF c = 0 THEN RDecimal(FALSE, <<>>, 0)
    ELSE IF c < 0 THEN RDecimal(TRUE, NoTrailingZeros(Digits(0 - c)),
                                Len(Digits(0 - c)) - 3)
    ELSE RDecimal(FALSE, NoTrailingZeros(Digits(c)), Len(Digits(c)) - 3)

\* it.get(key, default)
Get(x, default) == IF x.t = "missing" THEN default ELSE x

\* str.isspace() for one code point.
IsSpace(c) ==
    c \in {9, 10, 11, 12, 13, 28, 29, 30, 31, 32, 133, 160, 5760, 8232, 8233,
           8239, 8287, 12288} \cup (8192..8202)

\* str.strip()
\* s without the characters at its two ends that Space holds of.
Trim(s, Space(_)) ==
    IF \A i \in 1..Len(s) : Space(s[i]) THEN <<>>
    ELSE SubSeq(s,
                CHOOSE i \in 1..Len(s) :
                    ~Space(s[i]) /\ \A j \in 1..(i - 1) : Space(s[j]),
                CHOOSE i \in 1..Len(s) :
                    ~Space(s[i]) /\ \A j \in (i + 1)..Len(s) : Space(s[j]))

Strip(s) == Trim(s, IsSpace)

\* str(int)
IntStr(v) == (IF v.neg THEN <<45>> ELSE <<>>) \o v.d

\* n zeros.
Zeros(n) == [i \in 1..n |-> 48]

\* The exponent inside repr(float): its sign and at least two digits.
ExponentStr(e) ==
    IF e < 0
    THEN <<45>> \o (IF e > 0 - 10 THEN <<48>> ELSE <<>>) \o Digits(0 - e)
    ELSE <<43>> \o (IF e < 10 THEN <<48>> ELSE <<>>) \o Digits(e)

\* repr of a finite float 0.d * 10^n: the digits with the point among them
\* while the point stands within 0.000d and sixteen digits, else the first
\* digit, the others as its fraction and the exponent.
FloatStr(x) ==
    (IF x.neg THEN <<45>> ELSE <<>>)
      \o (IF x.d = <<>> THEN <<48, 46, 48>>
          ELSE IF x.n > 16 \/ x.n < 0 - 3
               THEN <<x.d[1]>>
                      \o (IF Len(x.d) > 1 THEN <<46>> \o Tail(x.d) ELSE <<>>)
                      \o <<101>> \o ExponentStr(x.n - 1)
          ELSE IF x.n <= 0 THEN <<48, 46>> \o Zeros(0 - x.n) \o x.d
          ELSE IF x.n >= Len(x.d)
               THEN x.d \o Zeros(x.n - Len(x.d)) \o <<46, 48>>
          ELSE SubSeq(x.d, 1, x.n) \o <<46>> \o SubSeq(x.d, x.n + 1, Len(x.d)))

\* repr of inf and -inf.
InfStr(x) == (IF x.neg THEN <<45>> ELSE <<>>) \o <<105, 110, 102>>

\* The ranges of code points for which str.isprintable() is false.
NonPrintable ==
    <<
      <<0, 31>>, <<127, 160>>, <<173, 173>>, <<888, 889>>, <<896, 899>>,
      <<907, 907>>, <<909, 909>>, <<930, 930>>, <<1328, 1328>>,
      <<1367, 1368>>, <<1419, 1420>>, <<1424, 1424>>, <<1480, 1487>>,
      <<1515, 1518>>, <<1525, 1541>>, <<1564, 1564>>, <<1757, 1757>>,
      <<1806, 1807>>, <<1867, 1868>>, <<1970, 1983>>, <<2043, 2044>>,
      <<2094, 2095>>, <<2111, 2111>>, <<2140, 2141>>, <<2143, 2143>>,
      <<2155, 2159>>, <<2191, 2199>>, <<2274, 2274>>, <<2436, 2436>>,
      <<2445, 2446>>, <<2449, 2450>>, <<2473, 2473>>, <<2481, 2481>>,
      <<2483, 2485>>, <<2490, 2491>>, <<2501, 2502>>, <<2505, 2506>>,
      <<2511, 2518>>, <<2520, 2523>>, <<2526, 2526>>, <<2532, 2533>>,
      <<2559, 2560>>, <<2564, 2564>>, <<2571, 2574>>, <<2577, 2578>>,
      <<2601, 2601>>, <<2609, 2609>>, <<2612, 2612>>, <<2615, 2615>>,
      <<2618, 2619>>, <<2621, 2621>>, <<2627, 2630>>, <<2633, 2634>>,
      <<2638, 2640>>, <<2642, 2648>>, <<2653, 2653>>, <<2655, 2661>>,
      <<2679, 2688>>, <<2692, 2692>>, <<2702, 2702>>, <<2706, 2706>>,
      <<2729, 2729>>, <<2737, 2737>>, <<2740, 2740>>, <<2746, 2747>>,
      <<2758, 2758>>, <<2762, 2762>>, <<2766, 2767>>, <<2769, 2783>>,
      <<2788, 2789>>, <<2802, 2808>>, <<2816, 2816>>, <<2820, 2820>>,
      <<2829, 2830>>, <<2833, 2834>>, <<2857, 2857>>, <<2865, 2865>>,
      <<2868, 2868>>, <<2874, 2875>>, <<2885, 2886>>, <<2889, 2890>>,
      <<2894, 2900>>, <<2904, 2907>>, <<2910, 2910>>, <<2916, 2917>>,
      <<2936, 2945>>, <<2948, 2948>>, <<2955, 2957>>, <<2961, 2961>>,
      <<2966, 2968>>, <<2971, 2971>>, <<2973, 2973>>, <<2976, 2978>>,
      <<2981, 2983>>, <<2987, 2989>>, <<3002, 3005>>, <<3011, 3013>>,
      <<3017, 3017>>, <<3022, 3023>>, <<3025, 3030>>, <<3032, 3045>>,
      <<3067, 3071>>, <<3085, 3085>>, <<3089, 3089>>, <<3113, 3113>>,
      <<3130, 3131>>, <<3141, 3141>>, <<3145, 3145>>, <<3150, 3156>>,
      <<3159, 3159>>, <<3163, 3164>>, <<3166, 3167>>, <<3172, 3173>>,
      <<3184, 3190>>, <<3213, 3213>>, <<3217, 3217>>, <<3241, 3241>>,
      <<3252, 3252>>, <<3258, 3259>>, <<3269, 3269>>, <<3273, 3273>>,
      <<3278, 3284>>, <<3287, 3292>>, <<3295, 3295>>, <<3300, 3301>>,
      <<3312, 3312>>, <<3315, 3327>>, <<3341, 3341>>, <<3345, 3345>>,
      <<3397, 3397>>, <<3401, 3401>>, <<3408, 3411>>, <<3428, 3429>>,
      <<3456, 3456>>, <<3460, 3460>>, <<3479, 3481>>, <<3506, 3506>>,
      <<3516, 3516>>, <<3518, 3519>>, <<3527, 3529>>, <<3531, 3534>>,
      <<3541, 3541>>, <<3543, 3543>>, <<3552, 3557>>, <<3568, 3569>>,
      <<3573, 3584>>, <<3643, 3646>>, <<3676, 3712>>, <<3715, 3715>>,
      <<3717, 3717>>, <<3723, 3723>>, <<3748, 3748>>, <<3750, 3750>>,
      <<3774, 3775>>, <<3781, 3781>>, <<3783, 3783>>, <<3790, 3791>>,
      <<3802, 3803>>, <<3808, 3839>>, <<3912, 3912>>, <<3949, 3952>>,
      <<3992, 3992>>, <<4029, 4029>>, <<4045, 4045>>, <<4059, 4095>>,
      <<4294, 4294>>, <<4296, 4300>>, <<4302, 4303>>, <<4681, 4681>>,
      <<4686, 4687>>, <<4695, 4695>>, <<4697, 4697>>, <<4702, 4703>>,
      <<4745, 4745>>, <<4750, 4751>>, <<4785, 4785>>, <<4790, 4791>>,
      <<4799, 4799>>, <<4801, 4801>>, <<4806, 4807>>, <<4823, 4823>>,
      <<4881, 4881>>, <<4886, 4887>>, <<4955, 4956>>, <<4989, 4991>>,
      <<5018, 5023>>, <<5110, 5111>>, <<5118, 5119>>, <<5760, 5760>>,
      <<5789, 5791>>, <<5881, 5887>>, <<5910, 5918>>, <<5943, 5951>>,
      <<5972, 5983>>, <<5997, 5997>>, <<6001, 6001>>, <<6004, 6015>>,
      <<6110, 6111>>, <<6122, 6127>>, <<6138, 6143>>, <<6158, 6158>>,
      <<6170, 6175>>, <<6265, 6271>>, <<6315, 6319>>, <<6390, 6399>>,
      <<6431, 6431>>, <<6444, 6447>>, <<6460, 6463>>, <<6465, 6467>>,
      <<6510, 6511>>, <<6517, 6527>>, <<6572, 6575>>, <<6602, 6607>>,
      <<6619, 6621>>, <<6684, 6685>>, <<6751, 6751>>, <<6781, 6782>>,
      <<6794, 6799>>, <<6810, 6815>>, <<6830, 6831>>, <<6863, 6911>>,
      <<6989, 6991>>, <<7039, 7039>>, <<7156, 7163>>, <<7224, 7226>>,
      <<7242, 7244>>, <<7305, 7311>>, <<7355, 7356>>, <<7368, 7375>>,
      <<7419, 7423>>, <<7958, 7959>>, <<7966, 7967>>, <<8006, 8007>>,
      <<8014, 8015>>, <<8024, 8024>>, <<8026, 8026>>, <<8028, 8028>>,
      <<8030, 8030>>, <<8062, 8063>>, <<8117, 8117>>, <<8133, 8133>>,
      <<8148, 8149>>, <<8156, 8156>>, <<8176, 8177>>, <<8181, 8181>>,
      <<8191, 8207>>, <<8232, 8239>>, <<8287, 8303>>, <<8306, 8307>>,
      <<8335, 8335>>, <<8349, 8351>>, <<8385, 8399>>, <<8433, 8447>>,
      <<8588, 8591>>, <<9255, 9279>>, <<9291, 9311>>, <<11124, 11125>>,
      <<11158, 11158>>, <<11508, 11512>>, <<11558, 11558>>,
      <<11560, 11564>>, <<11566, 11567>>, <<11624, 11630>>,
      <<11633, 11646>>, <<11671, 11679>>, <<11687, 11687>>,
      <<11695, 11695>>, <<11703, 11703>>, <<11711, 11711>>,
      <<11719, 11719>>, <<11727, 11727>>, <<11735, 11735>>,
      <<11743, 11743>>, <<11870, 11903>>, <<11930, 11930>>,
      <<12020, 12031>>, <<12246, 12271>>, <<12284, 12288>>,
      <<12352, 12352>>, <<12439, 12440>>, <<12544, 12548>>,
      <<12592, 12592>>, <<12687, 12687>>, <<12772, 12783>>,
      <<12831, 12831>>, <<42125, 42127>>, <<42183, 42191>>,
      <<42540, 42559>>, <<42744, 42751>>, <<42955, 42959>>,
      <<42962, 42962>>, <<42964, 42964>>, <<42970, 42993>>,
      <<43053, 43055>>, <<43066, 43071>>, <<43128, 43135>>,
      <<43206, 43213>>, <<43226, 43231>>, <<43348, 43358>>,
      <<43389, 43391>>, <<43470, 43470>>, <<43482, 43485>>,
      <<43519, 43519>>, <<43575, 43583>>, <<43598, 43599>>,
      <<43610, 43611>>, <<43715, 43738>>, <<43767, 43776>>,
      <<43783, 43784>>, <<43791, 43792>>, <<43799, 43807>>,
      <<43815, 43815>>, <<43823, 43823>>, <<43884, 43887>>,
      <<44014, 44015>>, <<44026, 44031>>, <<55204, 55215>>,
      <<55239, 55242>>, <<55292, 63743>>, <<64110, 64111>>,
      <<64218, 64255>>, <<64263, 64274>>, <<64280, 64284>>,
      <<64311, 64311>>, <<64317, 64317>>, <<64319, 64319>>,
      <<64322, 64322>>, <<64325, 64325>>, <<64451, 64466>>,
      <<64912, 64913>>, <<64968, 64974>>, <<64976, 65007>>,
      <<65050, 65055>>, <<65107, 65107>>, <<65127, 65127>>,
      <<65132, 65135>>, <<65141, 65141>>, <<65277, 65280>>,
      <<65471, 65473>>, <<65480, 65481>>, <<65488, 65489>>,
      <<65496, 65497>>, <<65501, 65503>>, <<65511, 65511>>,
      <<65519, 65531>>, <<65534, 65535>>, <<65548, 65548>>,
      <<65575, 65575>>, <<65595, 65595>>, <<65598, 65598>>,
      <<65614, 65615>>, <<65630, 65663>>, <<65787, 65791>>,
      <<65795, 65798>>, <<65844, 65846>>, <<65935, 65935>>,
      <<65949, 65951>>, <<65953, 65999>>, <<66046, 66175>>,
      <<66205, 66207>>, <<66257, 66271>>, <<66300, 66303>>,
      <<66340, 66348>>, <<66379, 66383>>, <<66427, 66431>>,
      <<66462, 66462>>, <<66500, 66503>>, <<66518, 66559>>,
      <<66718, 66719>>, <<66730, 66735>>, <<66772, 66775>>,
      <<66812, 66815>>, <<66856, 66863>>, <<66916, 66926>>,
      <<66939, 66939>>, <<66955, 66955>>, <<66963, 66963>>,
      <<66966, 66966>>, <<66978, 66978>>, <<66994, 66994>>,
      <<67002, 67002>>, <<67005, 67071>>, <<67383, 67391>>,
      <<67414, 67423>>, <<67432, 67455>>, <<67462, 67462>>,
      <<67505, 67505>>, <<67515, 67583>>, <<67590, 67591>>,
      <<67593, 67593>>, <<67638, 67638>>, <<67641, 67643>>,
      <<67645, 67646>>, <<67670, 67670>>, <<67743, 67750>>,
      <<67760, 67807>>, <<67827, 67827>>, <<67830, 67834>>,
      <<67868, 67870>>, <<67898, 67902>>, <<67904, 67967>>,
      <<68024, 68027>>, <<68048, 68049>>, <<68100, 68100>>,
      <<68103, 68107>>, <<68116, 68116>>, <<68120, 68120>>,
      <<68150, 68151>>, <<68155, 68158>>, <<68169, 68175>>,
      <<68185, 68191>>, <<68256, 68287>>, <<68327, 68330>>,
      <<68343, 68351>>, <<68406, 68408>>, <<68438, 68439>>,
      <<68467, 68471>>, <<68498, 68504>>, <<68509, 68520>>,
      <<68528, 68607>>, <<68681, 68735>>, <<68787, 68799>>,
      <<68851, 68857>>, <<68904, 68911>>, <<68922, 69215>>,
      <<69247, 69247>>, <<69290, 69290>>, <<69294, 69295>>,
      <<69298, 69375>>, <<69416, 69423>>, <<69466, 69487>>,
      <<69514, 69551>>, <<69580, 69599>>, <<69623, 69631>>,
      <<69710, 69713>>, <<69750, 69758>>, <<69821, 69821>>,
      <<69827, 69839>>, <<69865, 69871>>, <<69882, 69887>>,
      <<69941, 69941>>, <<69960, 69967>>, <<70007, 70015>>,
      <<70112, 70112>>, <<70133, 70143>>, <<70162, 70162>>,
      <<70207, 70271>>, <<70279, 70279>>, <<70281, 70281>>,
      <<70286, 70286>>, <<70302, 70302>>, <<70314, 70319>>,
      <<70379, 70383>>, <<70394, 70399>>, <<70404, 70404>>,
      <<70413, 70414>>, <<70417, 70418>>, <<70441, 70441>>,
      <<70449, 70449>>, <<70452, 70452>>, <<70458, 70458>>,
      <<70469, 70470>>, <<70473, 70474>>, <<70478, 70479>>,
      <<70481, 70486>>, <<70488, 70492>>, <<70500, 70501>>,
      <<70509, 70511>>, <<70517, 70655>>, <<70748, 70748>>,
      <<70754, 70783>>, <<70856, 70863>>, <<70874, 71039>>,
      <<71094, 71095>>, <<71134, 71167>>, <<71237, 71247>>,
      <<71258, 71263>>, <<71277, 71295>>, <<71354, 71359>>,
      <<71370, 71423>>, <<71451, 71452>>, <<71468, 71471>>,
      <<71495, 71679>>, <<71740, 71839>>, <<71923, 71934>>,
      <<71943, 71944>>, <<71946, 71947>>, <<71956, 71956>>,
      <<71959, 71959>>, <<71990, 71990>>, <<71993, 71994>>,
      <<72007, 72015>>, <<72026, 72095>>, <<72104, 72105>>,
      <<72152, 72153>>, <<72165, 72191>>, <<72264, 72271>>,
      <<72355, 72367>>, <<72441, 72703>>, <<72713, 72713>>,
      <<72759, 72759>>, <<72774, 72783>>, <<72813, 72815>>,
      <<72848, 72849>>, <<72872, 72872>>, <<72887, 72959>>,
      <<72967, 72967>>, <<72970, 72970>>, <<73015, 73017>>,
      <<73019, 73019>>, <<73022, 73022>>, <<73032, 73039>>,
      <<73050, 73055>>, <<73062, 73062>>, <<73065, 73065>>,
      <<73103, 73103>>, <<73106, 73106>>, <<73113, 73119>>,
      <<73130, 73439>>, <<73465, 73647>>, <<73649, 73663>>,
      <<73714, 73726>>, <<74650, 74751>>, <<74863, 74863>>,
      <<74869, 74879>>, <<75076, 77711>>, <<77811, 77823>>,
      <<78895, 82943>>, <<83527, 92159>>, <<92729, 92735>>,
      <<92767, 92767>>, <<92778, 92781>>, <<92863, 92863>>,
      <<92874, 92879>>, <<92910, 92911>>, <<92918, 92927>>,
      <<92998, 93007>>, <<93018, 93018>>, <<93026, 93026>>,
      <<93048, 93052>>, <<93072, 93759>>, <<93851, 93951>>,
      <<94027, 94030>>, <<94088, 94094>>, <<94112, 94175>>,
      <<94181, 94191>>, <<94194, 94207>>, <<100344, 100351>>,
      <<101590, 101631>>, <<101641, 110575>>, <<110580, 110580>>,
      <<110588, 110588>>, <<110591, 110591>>, <<110883, 110927>>,
      <<110931, 110947>>, <<110952, 110959>>, <<111356, 113663>>,
      <<113771, 113775>>, <<113789, 113791>>, <<113801, 113807>>,
      <<113818, 113819>>, <<113824, 118527>>, <<118574, 118575>>,
      <<118599, 118607>>, <<118724, 118783>>, <<119030, 119039>>,
      <<119079, 119080>>, <<119155, 119162>>, <<119275, 119295>>,
      <<119366, 119519>>, <<119540, 119551>>, <<119639, 119647>>,
      <<119673, 119807>>, <<119893, 119893>>, <<119965, 119965>>,
      <<119968, 119969>>, <<119971, 119972>>, <<119975, 119976>>,
      <<119981, 119981>>, <<119994, 119994>>, <<119996, 119996>>,
      <<120004, 120004>>, <<120070, 120070>>, <<120075, 120076>>,
      <<120085, 120085>>, <<120093, 120093>>, <<120122, 120122>>,
      <<120127, 120127>>, <<120133, 120133>>, <<120135, 120137>>,
      <<120145, 120145>>, <<120486, 120487>>, <<120780, 120781>>,
      <<121484, 121498>>, <<121504, 121504>>, <<121520, 122623>>,
      <<122655, 122879>>, <<122887, 122887>>, <<122905, 122906>>,
      <<122914, 122914>>, <<122917, 122917>>, <<122923, 123135>>,
      <<123181, 123183>>, <<123198, 123199>>, <<123210, 123213>>,
      <<123216, 123535>>, <<123567, 123583>>, <<123642, 123646>>,
      <<123648, 124895>>, <<124903, 124903>>, <<124908, 124908>>,
      <<124911, 124911>>, <<124927, 124927>>, <<125125, 125126>>,
      <<125143, 125183>>, <<125260, 125263>>, <<125274, 125277>>,
      <<125280, 126064>>, <<126133, 126208>>, <<126270, 126463>>,
      <<126468, 126468>>, <<126496, 126496>>, <<126499, 126499>>,
      <<126501, 126502>>, <<126504, 126504>>, <<126515, 126515>>,
      <<126520, 126520>>, <<126522, 126522>>, <<126524, 126529>>,
      <<126531, 126534>>, <<126536, 126536>>, <<126538, 126538>>,
      <<126540, 126540>>, <<126544, 126544>>, <<126547, 126547>>,
      <<126549, 126550>>, <<126552, 126552>>, <<126554, 126554>>,
      <<126556, 126556>>, <<126558, 126558>>, <<126560, 126560>>,
      <<126563, 126563>>, <<126565, 126566>>, <<126571, 126571>>,
      <<126579, 126579>>, <<126584, 126584>>, <<126589, 126589>>,
      <<126591, 126591>>, <<126602, 126602>>, <<126620, 126624>>,
      <<126628, 126628>>, <<126634, 126634>>, <<126652, 126703>>,
      <<126706, 126975>>, <<127020, 127023>>, <<127124, 127135>>,
      <<127151, 127152>>, <<127168, 127168>>, <<127184, 127184>>,
      <<127222, 127231>>, <<127406, 127461>>, <<127491, 127503>>,
      <<127548, 127551>>, <<127561, 127567>>, <<127570, 127583>>,
      <<127590, 127743>>, <<128728, 128732>>, <<128749, 128751>>,
      <<128765, 128767>>, <<128884, 128895>>, <<128985, 128991>>,
      <<129004, 129007>>, <<129009, 129023>>, <<129036, 129039>>,
      <<129096, 129103>>, <<129114, 129119>>, <<129160, 129167>>,
      <<129198, 129199>>, <<129202, 129279>>, <<129620, 129631>>,
      <<129646, 129647>>, <<129653, 129655>>, <<129661, 129663>>,
      <<129671, 129679>>, <<129709, 129711>>, <<129723, 129727>>,
      <<129734, 129743>>, <<129754, 129759>>, <<129768, 129775>>,
      <<129783, 129791>>, <<129939, 129939>>, <<129995, 130031>>,
      <<130042, 131071>>, <<173792, 173823>>, <<177977, 177983>>,
      <<178206, 178207>>, <<183970, 183983>>, <<191457, 194559>>,
      <<195102, 196607>>, <<201547, 917759>>, <<918000, 1114111>>
    >>

\* str.isprintable() for one code point.
IsPrintable(c) ==
    ~\E i \in 1..Len(NonPrintable) :
        NonPrintable[i][1] <= c /\ c <= NonPrintable[i][2]

\* Lower-case hexadecimal digits of n, `width` of them.
RECURSIVE Hex(_, _)
Hex(n, width) ==
    IF width = 0 THEN <<>>
    ELSE Hex(n \div 16, width - 1)
           \o <<IF n % 16 < 10 THEN 48 + (n % 16) ELSE 87 + (n % 16)>>

\* One character inside repr(str) for the chosen quote.
ReprChar(c, quote) ==
    IF c = quote \/ c = 92 THEN <<92, c>>
    ELSE IF c = 9 THEN <<92, 116>>
    ELSE IF c = 10 THEN <<92, 110>>
    ELSE IF c = 13 THEN <<92, 114>>
    ELSE IF IsPrintable(c) THEN <<c>>
    ELSE IF c < 256 THEN <<92, 120>> \o Hex(c, 2)
    ELSE IF c < 65536 THEN <<92, 117>> \o Hex(c, 4)
    ELSE <<92, 85>> \o Hex(c, 8)

\* The characters of s one after the other, the string taken by halves.
RECURSIVE ReprChars(_, _)
ReprChars(s, quote) ==
    IF s = <<>> THEN <<>>
    ELSE IF Len(s) = 1 THEN ReprChar(s[1], quote)
    ELSE ReprChars(SubSeq(s, 1, Len(s) \div 2), quote)
           \o ReprChars(SubSeq(s, Len(s) \div 2 + 1, Len(s)), quote)

\* repr(str): single quotes, or double quotes for a string that holds a
\* single quote and no double quote; the quote, the backslash and the
\* characters that do not print are escaped.
ReprStr(s) ==
    LET quote == IF (\E i \in 1..Len(s) : s[i] = 39)
                      /\ ~(\E i \in 1..Len(s) : s[i] = 34)
                 THEN 34 ELSE 39
    IN <<quote>> \o ReprChars(s, quote) \o <<quote>>

\* The elements of repr(list of str), separated by ", ".
RECURSIVE ListItemsStr(_)
ListItemsStr(l) ==
    IF l = <<>> THEN <<>>
    ELSE ReprStr(l[1])
           \o (IF Len(l) > 1 THEN <<44, 32>> ELSE <<>>) \o ListItemsStr(Tail(l))

\* Variant of PyStr that quotes a str, as repr(x) does.
PyRepr(x) ==
    CASE x.t = "str"   -> ReprStr(x.s)
      [] x.t = "none"  -> <<78, 111, 110, 101>>
      [] x.t = "int"   -> IntStr(x)
      [] x.t = "float" -> FloatStr(x)
      [] x.t = "inf"   -> InfStr(x)
      [] x.t = "nan"   -> <<110, 97, 110>>
      [] x.t = "bool"  -> IF x.n = 1 THEN <<84, 114, 117, 101>>
                                     ELSE <<70, 97, 108, 115, 101>>
      [] x.t = "list"  -> <<91>> \o ListItemsStr(x.l) \o <<93>>

\* str(x); the str of a list is the repr of its elements.
PyStr(x) ==
    CASE x.t = "str"   -> x.s
      [] x.t = "none"  -> <<78, 111, 110, 101>>
      [] x.t = "int"   -> IntStr(x)
      [] x.t = "float" -> FloatStr(x)
      [] x.t = "inf"   -> InfStr(x)
      [] x.t = "nan"   -> <<110, 97, 110>>
      [] x.t = "bool"  -> IF x.n = 1 THEN <<84, 114, 117, 101>>
                                     ELSE <<70, 97, 108, 115, 101>>
      [] x.t = "list"  -> <<91>> \o ListItemsStr(x.l) \o <<93>>

\* bool(x)
PyBool(x) ==
    CASE x.t = "str"   -> x.s # <<>>
      [] x.t = "none"  -> FALSE
      [] x.t = "int"   -> x.d # <<48>>
      [] x.t = "float" -> x.d # <<>>
      [] x.t = "inf"   -> TRUE
      [] x.t = "nan"   -> TRUE
      [] x.t = "bool"  -> x.n = 1
      [] x.t = "list"  -> x.l # <<>>

----------------------------------------------------------------------------
(* float(x), int(x), list(x): a result is [err, v], err = "" on success     *)

Ok(v) == [err |-> "", v |-> v]

Raise(e, v) == [err |-> e, v |-> v]

\* The code points of the digit zero of every Unicode decimal script; the
\* nine that follow each are its digits 1 to 9.
DecimalZeros ==
    {48, 1632, 1776, 1984, 2406, 2534, 2662, 2790, 2918, 3046, 3174, 3302,
     3430, 3558, 3664, 3792, 3872, 4160, 4240, 6112, 6160, 6470, 6608, 6784,
     6800, 6992, 7088, 7232, 7248, 42528, 43216, 43264, 43472, 43504, 43600,
     44016, 65296, 66720, 68912, 69734, 69872, 69942, 70096, 70384, 70736,
     70864, 71248, 71360, 71472, 71904, 72016, 72784, 73040, 73120, 92768,
     92864, 93008, 120782, 120792, 120802, 120812, 120822, 123200, 123632,
     125264, 130032}

\* float() and int() read a Unicode decimal digit as its ASCII digit.
AsciiDigit(c) ==
    IF \E z \in DecimalZeros : c - z \in 0..9
    THEN 48 + c - (CHOOSE z \in DecimalZeros : c - z \in 0..9)
    ELSE c

ToAscii(s) == [i \in 1..Len(s) |-> AsciiDigit(s[i])]

\* The white space float() and int() strip: that of str.strip() without
\* the separators U+001C to U+001F.
IsNumSpace(c) == IsSpace(c) /\ c \notin 28..31

NumStrip(s) == Trim(s, IsNumSpace)

\* A run of digits, with single underscores between digits allowed.
IsDigits(s) ==
    /\ s # <<>>
    /\ \A i \in 1..Len(s) : s[i] \in (48..57) \cup {95}
    /\ s[1] # 95
    /\ s[Len(s)] # 95
    /\ \A i \in 1..(Len(s) - 1) : ~(s[i] = 95 /\ s[i + 1] = 95)

WithoutUnderscores(s) == SelectSeq(s, LAMBDA c : c # 95)

\* A run of digits without its leading zeros.
NoLeadingZeros(s) ==
    IF \A i \in 1..Len(s) : s[i] = 48 THEN <<>>
    ELSE SubSeq(s,
                CHOOSE i \in 1..Len(s) :
                    s[i] # 48 /\ \A j \in 1..(i - 1) : s[j] = 48,
                Len(s))

\* The number written by at most nine digits.
RECURSIVE DigitsVal(_)
DigitsVal(s) ==
    IF s = <<>> THEN 0
    ELSE 10 * DigitsVal(SubSeq(s, 1, Len(s) - 1)) + (s[Len(s)] - 48)

\* A literal without its sign.
Unsigned(s) == IF s # <<>> /\ s[1] \in {43, 45} THEN Tail(s) ELSE s

Negative(s) == s # <<>> /\ s[1] = 45

\* Lower-case form of an ASCII string.
Lower(s) == [i \in 1..Len(s) |-> IF s[i] \in 65..90 THEN s[i] + 32 ELSE s[i]]

\* The 309 digits of the smallest number that float() rounds to inf, the
\* midpoint 2^1024 - 2^970 of the largest float and 2^1024.
Overflows ==
    <<
      49, 55, 57, 55, 54, 57, 51, 49, 51, 52, 56, 54, 50, 51, 49, 53, 56,
      48, 55, 57, 51, 55, 50, 56, 57, 55, 49, 52, 48, 53, 51, 48, 51, 52,
      49, 53, 48, 55, 57, 57, 51, 52, 49, 51, 50, 55, 49, 48, 48, 51, 55,
      56, 50, 54, 57, 51, 54, 49, 55, 51, 55, 55, 56, 57, 56, 48, 52, 52,
      52, 57, 54, 56, 50, 57, 50, 55, 54, 52, 55, 53, 48, 57, 52, 54, 54,
      52, 57, 48, 49, 55, 57, 55, 55, 53, 56, 55, 50, 48, 55, 48, 57, 54,
      51, 51, 48, 50, 56, 54, 52, 49, 54, 54, 57, 50, 56, 56, 55, 57, 49,
      48, 57, 52, 54, 53, 53, 53, 53, 52, 55, 56, 53, 49, 57, 52, 48, 52,
      48, 50, 54, 51, 48, 54, 53, 55, 52, 56, 56, 54, 55, 49, 53, 48, 53,
      56, 50, 48, 54, 56, 49, 57, 48, 56, 57, 48, 50, 48, 48, 48, 55, 48,
      56, 51, 56, 51, 54, 55, 54, 50, 55, 51, 56, 53, 52, 56, 52, 53, 56,
      49, 55, 55, 49, 49, 53, 51, 49, 55, 54, 52, 52, 55, 53, 55, 51, 48,
      50, 55, 48, 48, 54, 57, 56, 53, 53, 53, 55, 49, 51, 54, 54, 57, 53,
      57, 54, 50, 50, 56, 52, 50, 57, 49, 52, 56, 49, 57, 56, 54, 48, 56,
      51, 52, 57, 51, 54, 52, 55, 53, 50, 57, 50, 55, 49, 57, 48, 55, 52,
      49, 54, 56, 52, 52, 52, 51, 54, 53, 53, 49, 48, 55, 48, 52, 51, 52,
      50, 55, 49, 49, 53, 53, 57, 54, 57, 57, 53, 48, 56, 48, 57, 51, 48,
      52, 50, 56, 56, 48, 49, 55, 55, 57, 48, 52, 49, 55, 52, 52, 57, 55,
      55, 57, 50
    >>

\* The value of an exponent's digits, cut at a million.
ExponentVal(s) ==
    LET d == NoLeadingZeros(WithoutUnderscores(s))
    IN IF Len(d) > 6 THEN 1000000 ELSE DigitsVal(d)

\* Round half to even: whether the digits `rest` that follow the kept ones
\* round the kept number `keep` up.
RoundsUp(keep, rest) ==
    IF rest = <<>> THEN FALSE
    ELSE IF rest[1] # 53 THEN rest[1] > 53
    ELSE IF \E i \in 2..Len(rest) : rest[i] # 48 THEN TRUE
    ELSE keep % 2 = 1

\* The float 0.d1d2... * 10^p for the digits `digits` with `places` of them
\* after the point and the exponent `exponent`: inf from the overflow
\* threshold on, Huge from a million on, else the nearest thousandth.
Magnitude(digits, places, exponent) ==
    LET d    == NoLeadingZeros(digits)
        p    == Len(d) + exponent - places
        k    == p + 3
        keep == DigitsVal(SubSeq(d \o [i \in 1..9 |-> 48], 1, k))
        rest == SubSeq(d, k + 1, Len(d))
    IN IF d = <<>> THEN 0
       ELSE IF p > 309 \/ (p = 309 /\ ~StrLess(d, Overflows)) THEN Inf
       ELSE IF k > 9 THEN Huge
       ELSE IF k < 0 THEN 0
       ELSE keep + (IF RoundsUp(keep, rest) THEN 1 ELSE 0)

\* The position of the first c in s, Len(s) + 1 when there is none.
IndexOf(s, c) ==
    IF \E i \in 1..Len(s) : s[i] = c
    THEN CHOOSE i \in 1..Len(s) : s[i] = c /\ \A j \in 1..(i - 1) : s[j] # c
    ELSE Len(s) + 1

\* What stands before and after the first c of s.
Before(s, c) == SubSeq(s, 1, IndexOf(s, c) - 1)

After(s, c) == SubSeq(s, IndexOf(s, c) + 1, Len(s))

\* The value of a signed exponent.
SignedExponent(exp) ==
    IF Negative(exp) THEN 0 - ExponentVal(Unsigned(exp))
    ELSE ExponentVal(Unsigned(exp))

\* digits [. digits] [e [sign] digits] with a digit before or after the
\* point, given as the digits before the point, those after it and what
\* follows the e.
DecimalLiteral(int, frac, hasExp, exp) ==
    IF /\ int = <<>> \/ IsDigits(int)
       /\ frac = <<>> \/ IsDigits(frac)
       /\ int \o frac # <<>>
       /\ ~hasExp \/ IsDigits(Unsigned(exp))
    THEN Ok(Magnitude(WithoutUnderscores(int \o frac),
                      Len(WithoutUnderscores(frac)),
                      IF hasExp THEN SignedExponent(exp) ELSE 0))
    ELSE Raise("ValueError", 0)

\* A literal without its sign, in lower case: inf | infinity | nan, or a
\* decimal split at its e and at its point.
UnsignedFloat(low) ==
    IF low = <<110, 97, 110>> THEN Ok(NaN)
    ELSE IF low \in {<<105, 110, 102>>,
                     <<105, 110, 102, 105, 110, 105, 116, 121>>}
         THEN Ok(Inf)
    ELSE DecimalLiteral(Before(Before(low, 101), 46),
                        After(Before(low, 101), 46),
                        101 \in Range(low),
                        After(low, 101))

\* The sign of the literal applied to its value; -nan is nan.
WithSign(negative, r) ==
    IF negative /\ r.err = "" /\ r.v # NaN THEN Ok(0 - r.v) ELSE r

\* float(str): the string with Unicode digits read as ASCII and stripped of
\* white space is [sign] inf | infinity | nan in any case, or
\* [sign] digits [. digits] [e [sign] digits] with a digit before or after
\* the point; anything else is a ValueError.
FloatLiteral(s) == WithSign(Negative(s), UnsignedFloat(Lower(Unsigned(s))))

ParseFloat(str) == FloatLiteral(NumStrip(ToAscii(str)))

\* float(int): an int that rounds to inf is an OverflowError.
IntToFloat(x) ==
    IF Magnitude(x.d, 0, 0) = Inf THEN Raise("OverflowError", 0)
    ELSE WithSign(x.neg, Ok(Magnitude(x.d, 0, 0)))

\* float(x)
PyFloat(x) ==
    CASE x.t = "str"   -> ParseFloat(x.s)
      [] x.t = "none"  -> Raise("TypeError", 0)
      [] x.t = "int"   -> IntToFloat(x)
      [] x.t = "float" -> WithSign(x.neg, Ok(Magnitude(x.d, Len(x.d), x.n)))
      [] x.t = "inf"   -> WithSign(x.neg, Ok(Inf))
      [] x.t = "nan"   -> Ok(NaN)
      [] x.t = "bool"  -> Ok(1000 * x.n)
      [] x.t = "list"  -> Raise("TypeError", 0)

\* The int of a sign and digits that may start with zeros.
Canonical(neg, m) ==
    IF NoLeadingZeros(m) = <<>> THEN IntOf(0)
    ELSE IntVal(neg, NoLeadingZeros(m))

\* int(str): the string with Unicode digits read as ASCII and stripped of
\* white space is [sign] digits, of which there are at most 4300 (the
\* default of sys.get_int_max_str_digits()); anything else is a ValueError.
IntLiteral(s) ==
    IF IsDigits(Unsigned(s)) /\ Len(WithoutUnderscores(Unsigned(s))) <= 4300
    THEN Ok(Canonical(Negative(s), WithoutUnderscores(Unsigned(s))))
    ELSE Raise("ValueError", IntOf(0))

ParseInt(str) == IntLiteral(NumStrip(ToAscii(str)))

\* 2^53: below it every integer is a float.
TwoTo53 == <<57, 48, 48, 55, 49, 57, 57, 50, 53, 52, 55, 52, 48, 57, 57, 50>>

\* Whether the integer with the digits m is odd, its half rounded down, its
\* double and its successor.
Odd(m) == m[Len(m)] % 2 = 1

Half(m) ==
    NoLeadingZeros([i \in 1..Len(m) |->
        48 + (((IF i > 1 /\ m[i - 1] % 2 = 1 THEN 10 ELSE 0) + m[i] - 48) \div 2)])

Twice(m) ==
    (IF m[1] >= 53 THEN <<49>> ELSE <<>>)
      \o [i \in 1..Len(m) |->
            48 + ((2 * (m[i] - 48)
                     + (IF i < Len(m) /\ m[i + 1] >= 53 THEN 1 ELSE 0)) % 10)]

RECURSIVE Successor(_)
Successor(m) ==
    IF m = <<>> THEN <<49>>
    ELSE IF m[Len(m)] = 57 THEN Successor(SubSeq(m, 1, Len(m) - 1)) \o <<48>>
    ELSE SubSeq(m, 1, Len(m) - 1) \o <<m[Len(m)] + 1>>

\* m halved n times, the count taken by halves; zero stays zero.
RECURSIVE HalfN(_, _)
HalfAgain(m, n) == IF m = <<>> THEN <<>> ELSE HalfN(m, n)

HalfN(m, n) ==
    IF n = 0 THEN m
    ELSE IF n = 1 THEN Half(m)
    ELSE HalfAgain(HalfN(m, n \div 2), n - n \div 2)

\* m doubled n times.
RECURSIVE TwiceN(_, _)
TwiceAgain(m, n) == IF m = <<>> THEN <<>> ELSE TwiceN(m, n)

TwiceN(m, n) ==
    IF n = 0 THEN m
    ELSE IF n = 1 THEN Twice(m)
    ELSE TwiceAgain(TwiceN(m, n \div 2), n - n \div 2)

\* How many of its lowest bits an integer with the digits m loses to fit
\* into the 53 bits of a float: the count lies between the bounds that the
\* number of digits gives (3321 / 1000 < log2(10) < 3322 / 1000).
BitsDropped(m) ==
    CHOOSE q \in 0..((3322 * Len(m)) \div 1000) :
        /\ 1000 * (q + 53) >= 3321 * (Len(m) - 1)
        /\ MagLess(HalfN(m, q), TwoTo53)
        /\ q > 0 => ~MagLess(HalfN(m, q - 1), TwoTo53)

\* m * 2^q for the integer m / 2^q rounded half to even: `guard` is the
\* last bit dropped, `sticky` whether a bit dropped before it was set.
RoundHalfEven(m, q, guard, sticky) ==
    IF guard /\ (sticky \/ Odd(HalfN(m, q)))
    THEN TwiceN(Successor(HalfN(m, q)), q)
    ELSE TwiceN(HalfN(m, q), q)

KeepBits(m, q) ==
    IF q = 0 THEN m
    ELSE RoundHalfEven(m, q, Odd(HalfN(m, q - 1)),
                       TwiceN(HalfN(m, q - 1), q - 1) # m)

\* The integer m rounded to the 53 significant bits of a float.
RoundToDouble(m) == KeepBits(m, BitsDropped(m))

\* int(float) of a finite float: its digits before the point, and from
\* 2^53 on the float itself, the nearest one to its shortest decimal.
TruncFloat(x) ==
    IF x.n <= 0 \/ x.d = <<>> THEN IntOf(0)
    ELSE IntVal(x.neg,
                RoundToDouble(SubSeq(x.d \o Zeros(x.n - Len(x.d)), 1, x.n)))

\* int(x); a float is truncated towards zero, int(inf) overflows.
PyInt(x) ==
    CASE x.t = "str"   -> ParseInt(x.s)
      [] x.t = "none"  -> Raise("TypeError", IntOf(0))
      [] x.t = "int"   -> Ok(IntVal(x.neg, x.d))
      [] x.t = "float" -> Ok(TruncFloat(x))
      [] x.t = "inf"   -> Raise("OverflowError", IntOf(0))
      [] x.t = "nan"   -> Raise("ValueError", IntOf(0))
      [] x.t = "bool"  -> Ok(IntOf(x.n))
      [] x.t = "list"  -> Raise("TypeError", IntOf(0))

\* list(x or []): a falsy value gives [], a str its characters, a number
\* or True is not iterable.
PyListOrEmpty(x) ==
    IF ~PyBool(x) THEN Ok(<<>>)
    ELSE CASE x.t = "list" -> Ok(x.l)
           [] x.t = "str"  -> Ok([i \in 1..Len(x.s) |-> <<x.s[i]>>])
           [] OTHER        -> Raise("TypeError", <<>>)

----------------------------------------------------------------------------
(* _norm_ec_list of the name-only families (src/chained_net_call.py)        *)

\* min(1.0, v) and max(0.0, v) of Python: the first argument is kept unless
\* the second compares smaller (greater); a nan never does.
PyMin(x, y) == IF FloatLess(y, x) THEN y ELSE x

PyMax(x, y) == IF FloatLess(x, y) THEN y ELSE x

\* max(0.0, min(1.0, v))
ClampMaxMin(v) == PyMax(0, PyMin(1000, v))

\* str(it.get("name", "")).strip()
NameOf(it) == Strip(PyStr(Get(it.name, RStr(<<>>))))

\* The dict literal ec = {...} for one raw item: the first exception raised
\* while its values are evaluated, or the record.
NormItem(it) ==
    LET conf   == PyFloat(Get(it.confidence, RFloat(0)))
        guards == PyListOrEmpty(Get(it.guards, RList(<<>>)))
        ec     == EC(NameOf(it),
                     Strip(PyStr(Get(it.code_snippet, RStr(<<>>)))),
                     Strip(PyStr(Get(it.code_block, RStr(<<>>)))),
                     PyBool(Get(it.further_expand, RBool(FALSE))),
                     ClampMaxMin(conf.v),
                     PyBool(Get(it.conditioned, RBool(FALSE))),
                     guards.v)
    IN IF conf.err # "" THEN Raise(conf.err, <<>>)
       ELSE IF guards.err # "" THEN Raise(guards.err, <<>>)
       ELSE Ok(ec)

\* The loop over the items: the list `out`, or the exception that ended it.
RECURSIVE _norm_ec_list(_)
_norm_ec_list(items) ==
    IF items = <<>> THEN Ok(<<>>)
    ELSE LET front == _norm_ec_list(SubSeq(items, 1, Len(items) - 1))
             r     == NormItem(items[Len(items)])
         IN IF front.err # "" THEN front
            ELSE IF r.err # "" THEN Raise(r.err, <<>>)
            ELSE IF r.v.name # <<>> THEN Ok(Append(front.v, r.v))
            ELSE front

----------------------------------------------------------------------------
(* _norm_ec_list of the composite-key family (src/Correction.py:974-996)    *)

\* if c < 0.0: c = 0.0;  if c > 1.0: c = 1.0
ClampIfs(v) ==
    LET low == IF FloatLess(v, 0) THEN 0 ELSE v
    IN IF FloatLess(1000, low) THEN 1000 ELSE low

\* _norm_ec_list of src/Argument.py:73-91: the record of the name-only
\* families, its confidence clamped by the two ifs.
NormItemIfs(it) ==
    LET conf   == PyFloat(Get(it.confidence, RFloat(0)))
        guards == PyListOrEmpty(Get(it.guards, RList(<<>>)))
        ec     == EC(NameOf(it),
                     Strip(PyStr(Get(it.code_snippet, RStr(<<>>)))),
                     Strip(PyStr(Get(it.code_block, RStr(<<>>)))),
                     PyBool(Get(it.further_expand, RBool(FALSE))),
                     ClampIfs(conf.v),
                     PyBool(Get(it.conditioned, RBool(FALSE))),
                     guards.v)
    IN IF conf.err # "" THEN Raise(conf.err, <<>>)
       ELSE IF guards.err # "" THEN Raise(guards.err, <<>>)
       ELSE Ok(ec)

RECURSIVE _norm_ec_list_ifs(_)
_norm_ec_list_ifs(items) ==
    IF items = <<>> THEN Ok(<<>>)
    ELSE LET front == _norm_ec_list_ifs(SubSeq(items, 1, Len(items) - 1))
             r     == NormItemIfs(items[Len(items)])
         IN IF front.err # "" THEN front
            ELSE IF r.err # "" THEN Raise(r.err, <<>>)
            ELSE IF r.v.name # <<>> THEN Ok(Append(front.v, r.v))
            ELSE front

\* if ec["variant"] < 0: ec["variant"] = 0
ClampVariant(v) == IF IntLess(v, IntOf(0)) THEN IntOf(0) ELSE v

NormItemVariant(it) ==
    LET conf    == PyFloat(Get(it.confidence, RFloat(0)))
        guards  == PyListOrEmpty(Get(it.guards, RList(<<>>)))
        variant == PyInt(Get(it.variant, RInt(0)))
        ec      == ECV(NameOf(it),
                       Strip(PyStr(Get(it.code_snippet, RStr(<<>>)))),
                       Strip(PyStr(Get(it.code_block, RStr(<<>>)))),
                       PyBool(Get(it.further_expand, RBool(FALSE))),
                       ClampIfs(conf.v),
                       PyBool(Get(it.conditioned, RBool(FALSE))),
                       guards.v,
                       Strip(PyStr(Get(it.comment, RStr(<<>>)))),
                       ClampVariant(variant.v))
    IN IF conf.err # "" THEN Raise(conf.err, <<>>)
       ELSE IF guards.err # "" THEN Raise(guards.err, <<>>)
       ELSE IF variant.err # "" THEN Raise(variant.err, <<>>)
       ELSE Ok(ec)

RECURSIVE _norm_ec_list_variant(_)
_norm_ec_list_variant(items) ==
    IF items = <<>> THEN Ok(<<>>)
    ELSE LET front == _norm_ec_list_variant(SubSeq(items, 1, Len(items) - 1))
             r     == NormItemVariant(items[Len(items)])
         IN IF front.err # "" THEN front
            ELSE IF r.err # "" THEN Raise(r.err, <<>>)
            ELSE IF r.v.name # <<>> THEN Ok(Append(front.v, r.v))
            ELSE front

----------------------------------------------------------------------------
(* Raw items handed to the normalizers *)

MaxItems == 2

RawItem(name, snippet, block, expand, conf, cond, guards, comment, variant) == [name |-> name, code_snippet |-> snippet, code_block |-> block, further_expand |-> expand, confidence |-> conf, conditioned |-> cond, guards |-> guards, comment |-> comment, variant |-> variant]

Str_f_padded == <<32, 102, 32>>
Str_blank    == <<32, 9>>
Str_half     == <<48, 46, 53>>
Str_high     == <<104, 105, 103, 104>>
Str_two      == <<50>>
Str_exp      == <<49, 101, 48>>
Str_inf      == <<105, 110, 102>>
Str_quarter  == <<48, 46, 50, 53>>
Str_grouped  == <<49, 95, 48>>
Str_quote    == <<97, 39, 98>>

\* A well-formed item whose strings carry surrounding whitespace.
BaseItem == RawItem(RStr(Str_f_padded), RStr(Str_s \o <<32>>), RStr(Str_x), RBool(TRUE), RFloat(500), RBool(FALSE), RList(<<Str_a, Str_a>>), RStr(<<32>> \o Str_i), RInt(1))

NameValues ==
    {Missing, RStr(<<>>), RStr(Str_blank), PyNone, RInt(7), RList(<<Str_quote>>),
     RDecimal(FALSE, <<53>>, 8), RList(<<<<8203>>>>)}

ConfidenceValues ==
    {Missing, RFloat(0 - 5000), RInt(7), RBool(TRUE), PyNaN, RStr(Str_half), RStr(Str_high), PyNone,
     RStr(Str_exp), RStr(Str_inf), RStr(Str_quarter), RDecimal(FALSE, <<53>>, 8)}

GuardsValues == {Missing, PyNone, RStr(Str_ab), RInt(5)}

VariantValues ==
    {Missing, RInt(0 - 2), RFloat(1500), RStr(Str_two), RStr(Str_x), RStr(Str_grouped),
     RDecimal(FALSE, <<49>>, 7), RDecimal(TRUE, <<49>>, 24)}

\* BaseItem, BaseItem with one field replaced, and two items with a blank
\* name and another unusual field.
RawItems ==
    {BaseItem}
      \cup {[BaseItem EXCEPT !.name = v] : v \in NameValues}
      \cup {[BaseItem EXCEPT !.confidence = v] : v \in ConfidenceValues}
      \cup {[BaseItem EXCEPT !.guards = v] : v \in GuardsValues}
      \cup {[BaseItem EXCEPT !.variant = v] : v \in VariantValues}
      \cup {[BaseItem EXCEPT !.name = RStr(Str_blank), !.confidence = PyNaN],
            [BaseItem EXCEPT !.name = Missing, !.confidence = RStr(Str_high)]}

\* A normalized record passed as a raw item.
ToRaw(ec) == RawItem(RStr(ec.name), RStr(ec.code_snippet), RStr(ec.code_block), RBool(ec.further_expand), RFloat(ec.confidence), RBool(ec.conditioned), RList(ec.guards), Missing, Missing)

ToRawVariant(ec) == RawItem(RStr(ec.name), RStr(ec.code_snippet), RStr(ec.code_block), RBool(ec.further_expand), RFloat(ec.confidence), RBool(ec.conditioned), RList(ec.guards), RStr(ec.comment), RIntVal(ec.variant))

----------------------------------------------------------------------------
(* The normalizer calls: _norm_ec_list(X), then _norm_ec_list of its result *)

MergeIdle ==
    /\ argA = <<>>
    /\ argB = <<>>
    /\ a = <<>>
    /\ b = <<>>
    /\ out = <<>>

NormInit ==
    /\ kind \in {"norm", "norm_variant"}
    /\ raw \in ListsUpTo(RawItems, MaxItems)
    /\ argRaw = raw
    /\ res = <<>>
    /\ res2 = <<>>
    /\ pc = "call"
    /\ MergeIdle
    /\ NestedIdle
    /\ ExtractIdle
    /\ PairIdle

\* The function reads its items and builds new records: raw is not assigned.
NormReturn(st, result) ==
    /\ res' = result
    /\ pc' = IF result.err = "" THEN st ELSE "raised"
    /\ UNCHANGED <<kind, raw, argRaw, res2>>
    /\ UNCHANGED <<argA, argB, a, b, out>>
    /\ UNCHANGED <<nestedVars, extractVars, pairVars>>

NormCall ==
    /\ pc = "call"
    /\ kind = "norm"
    /\ NormReturn("normed", _norm_ec_list(raw))

NormVariantCall ==
    /\ pc = "call"
    /\ kind = "norm_variant"
    /\ NormReturn("normed", _norm_ec_list_variant(raw))

NormAgainReturn(result) ==
    /\ res2' = result
    /\ pc' = "done"
    /\ UNCHANGED <<kind, raw, argRaw, res>>
    /\ UNCHANGED <<argA, argB, a, b, out>>
    /\ UNCHANGED <<nestedVars, extractVars, pairVars>>

NormCallAgain ==
    /\ pc = "normed"
    /\ kind = "norm"
    /\ NormAgainReturn(_norm_ec_list([i \in 1..Len(res.v) |-> ToRaw(res.v[i])]))

NormVariantCallAgain ==
    /\ pc = "normed"
    /\ kind = "norm_variant"
    /\ NormAgainReturn(_norm_ec_list_variant([i \in 1..Len(res.v) |-> ToRawVariant(res.v[i])]))

NormNext ==
    \/ NormCall
    \/ NormVariantCall
    \/ NormCallAgain
    \/ NormVariantCallAgain

SpecNorm == NormInit /\ [][NormNext]_vars

----------------------------------------------------------------------------
(* C14 - C16: the normalizer *)

Returned == pc \in {"normed", "done"}

Raised == pc = "raised"

\* The name is absent, or a str of whitespace only.
NameMissingOrBlank(it) ==
    \/ it.name.t = "missing"
    \/ it.name.t = "str" /\ \A i \in 1..Len(it.name.s) : IsSpace(it.name.s[i])

Survivors(items) == SelectSeq(items, LAMBDA it : ~NameMissingOrBlank(it))

Trimmed(s) == s # <<>> /\ ~IsSpace(s[1]) /\ ~IsSpace(s[Len(s)])

\* The input confidence of an item as a float, and whether it has one.
InputConfidence(it) == PyFloat(Get(it.confidence, RFloat(0)))

InputVariant(it) == PyInt(Get(it.variant, RInt(0)))

\* c is v brought into [0, 1]; for a nan any value of [0, 1] will do.
ClampedFrom(c, v) ==
    /\ c \in 0..1000
    /\ v # NaN => c = (IF v < 0 THEN 0 ELSE IF v > 1000 THEN 1000 ELSE v)

\* C14: every record returned by _norm_ec_list has a non-empty trimmed name
\* and the confidence of its item clamped into [0, 1]; the items whose name
\* is missing or blank are dropped, the others are kept in input order.
C14_NormalizedRecords ==
    Returned =>
        LET kept == Survivors(argRaw)
        IN /\ Len(res.v) = Len(kept)
           /\ \A i \in 1..Len(res.v) :
                /\ Trimmed(res.v[i].name)
                /\ res.v[i].name = NameOf(kept[i])
                /\ ClampedFrom(res.v[i].confidence, InputConfidence(kept[i]).v)

\* C15: _norm_ec_list never raises; a confidence that is no number becomes
\* 0.0, a variant that is no integer becomes 0, and only the items with an
\* empty name are removed.
C15_BestEffortCoercion ==
    pc # "call" =>
        LET kept == Survivors(argRaw)
        IN /\ ~Raised
           /\ res.err = ""
           /\ Len(res.v) = Len(kept)
           /\ \A i \in 1..Len(res.v) :
                /\ InputConfidence(kept[i]).err # "" => res.v[i].confidence = 0
                /\ (kind = "norm_variant" /\ InputVariant(kept[i]).err # "")
                       => res.v[i].variant = IntOf(0)

\* C16: normalizing a normalized list returns it unchanged, field for field
\* and in the same order, and the input list of a call is left as it was.
C16_NormIdempotent ==
    /\ raw = argRaw
    /\ Done => res2 = Ok(res.v)

\* A composite-key call that trimmed a name, dropped an item and was applied
\* again to its own result.
C16_Witness ==
    /\ Done
    /\ kind = "norm_variant"
    /\ Len(argRaw) = 2
    /\ Len(res.v) = 1
    /\ res.v[1].name # argRaw[1].name.s
    /\ res2.v = res.v

----------------------------------------------------------------------------
(* Parsed model output: what json.loads returns for one response            *)

\* The value under a key of a parsed dict: t is "missing" (no such key),
\* "none" (null), "int" (the number 5) or "list" (of mappings).
JV(t, items) == [t |-> t, items |-> items]

NoKey == JV("missing", <<>>)

JNone == JV("none", <<>>)

JInt == JV("int", <<>>)

JItems(items) == JV("list", items)

\* One response of the model.  t = "fail": llm.invoke or json.loads raised;
\* t = "list": the text parsed to a JSON array; t = "dict": to an object
\* with the keys given.
Response(t, children, lines, verdicts) == [t |-> t, children |-> children, lines |-> lines, verdicts |-> verdicts]

FailResponse == Response("fail", NoKey, NoKey, NoKey)

ListResponse == Response("list", NoKey, NoKey, NoKey)

ChildrenResponse(v) == Response("dict", v, NoKey, NoKey)

LinesResponse(v) == Response("dict", NoKey, v, NoKey)

VerdictsResponse(v) == Response("dict", NoKey, NoKey, v)

\* _norm_ec_list(out.get("children", [])): a parsed value that is no dict
\* has no get; `items or []` turns null into []; a number is not iterable.
NormChildren(j) ==
    IF j.t # "dict" THEN Raise("AttributeError", <<>>)
    ELSE LET v == Get(j.children, JItems(<<>>))
         IN CASE v.t = "none" -> Ok(<<>>)
              [] v.t = "int"  -> Raise("TypeError", <<>>)
              [] v.t = "list" ->
                   CASE kind = "ecs"         -> _norm_ec_list_variant(v.items)
                     [] kind = "pass_as_arg" -> _norm_ec_list_ifs(v.items)
                     [] OTHER                -> _norm_ec_list(v.items)

\* One character of a str inside json.dumps(..., ensure_ascii=False): the
\* double quote, the backslash and the control characters are escaped.
JsonChar(c) ==
    IF c \in {34, 92} THEN <<92, c>>
    ELSE IF c = 10 THEN <<92, 110>>
    ELSE IF c = 13 THEN <<92, 114>>
    ELSE IF c = 9 THEN <<92, 116>>
    ELSE IF c = 8 THEN <<92, 98>>
    ELSE IF c = 12 THEN <<92, 102>>
    ELSE IF c < 32 THEN <<92, 117>> \o Hex(c, 4)
    ELSE <<c>>

\* The characters of s one after the other, the string taken by halves.
RECURSIVE JsonChars(_)
JsonChars(s) ==
    IF s = <<>> THEN <<>>
    ELSE IF Len(s) = 1 THEN JsonChar(s[1])
    ELSE JsonChars(SubSeq(s, 1, Len(s) \div 2))
           \o JsonChars(SubSeq(s, Len(s) \div 2 + 1, Len(s)))

\* json.dumps of a str.
JsonStr(s) == <<34>> \o JsonChars(s) \o <<34>>

\* json.dumps of one paraphrase line: {"line": n, "text": "s"}
LineStr(l) ==
    <<123, 34, 108, 105, 110, 101, 34, 58, 32>> \o IntStr(IntOf(l.line))
       \o <<44, 32, 34, 116, 101, 120, 116, 34, 58, 32>> \o JsonStr(l.text)
       \o <<125>>

RECURSIVE JoinLines(_)
JoinLines(ls) ==
    IF ls = <<>> THEN <<>>
    ELSE LineStr(ls[1]) \o (IF Len(ls) > 1 THEN <<44, 32>> ELSE <<>>)
           \o JoinLines(Tail(ls))

\* json.dumps(v, ensure_ascii=False), as code points: null, 5, [...]
Dumps(v) ==
    CASE v.t = "none" -> <<110, 117, 108, 108>>
      [] v.t = "int"  -> <<53>>
      [] v.t = "list" -> <<91>> \o JoinLines(v.items) \o <<93>>

\* json.dumps(explained.get("lines", []), ensure_ascii=False)
ExplainedJson(j) ==
    IF j.t # "dict" THEN Raise("AttributeError", <<>>)
    ELSE Ok(Dumps(Get(j.lines, JItems(<<>>))))

----------------------------------------------------------------------------
(* The verdict loop of validate_chained_next_call (kind "validate"), of      *)
(* validate_object_instantiations (kind "validate_ecs") and of              *)
(* validate_lambda_children (kind "validate_lambda")                        *)

ValidateKinds == {"validate", "validate_ecs", "validate_lambda"}

RawVerdict(name, valid, confidence, reason) == [name |-> name, valid |-> valid, confidence |-> confidence, reason |-> reason]

Verdict(name, valid, confidence, reason) == [name |-> name, valid |-> valid, confidence |-> confidence, reason |-> reason]

\* try: conf = float(...)  except Exception: conf = 0.0
GuardedFloat(conf) == IF conf.err # "" THEN Ok(0) ELSE conf

\* conf = float(v.get("confidence", 0.0)): guarded by try/except in the two
\* later validators, bare in validate_chained_next_call.
VerdictFloat(x) == IF kind = "validate" THEN PyFloat(x) ELSE GuardedFloat(PyFloat(x))

\* conf = max(0.0, min(1.0, conf)); validate_object_instantiations has
\* if conf < 0.0: conf = 0.0 and if conf > 1.0: conf = 1.0 in its place.
VerdictClamp(v) == IF kind = "validate_ecs" THEN ClampIfs(v) ELSE ClampMaxMin(v)

\* for v in ...: the confidence is converted only when the name is not empty.
RECURSIVE CleanVerdicts(_)
CleanVerdicts(items) ==
    IF items = <<>> THEN Ok(<<>>)
    ELSE LET front == CleanVerdicts(SubSeq(items, 1, Len(items) - 1))
             v     == items[Len(items)]
             nm    == Strip(PyStr(Get(v.name, RStr(<<>>))))
             conf  == VerdictFloat(Get(v.confidence, RFloat(0)))
         IN IF front.err # "" THEN front
            ELSE IF nm = <<>> THEN front
            ELSE IF conf.err # "" THEN Raise(conf.err, <<>>)
            ELSE Ok(Append(front.v,
                           Verdict(nm,
                                   PyBool(Get(v.valid, RBool(FALSE))),
                                   VerdictClamp(conf.v),
                                   Strip(PyStr(Get(v.reason, RStr(<<>>)))))))

\* for v in out.get("verdicts", []): ...
Verdicts(j) ==
    IF j.t # "dict" THEN Raise("AttributeError", <<>>)
    ELSE LET v == Get(j.verdicts, JItems(<<>>))
         IN IF v.t = "list" THEN CleanVerdicts(v.items)
            ELSE Raise("TypeError", <<>>)

----------------------------------------------------------------------------
(* Prompts.  A prompt is the sequence of the pieces its f-string joins.     *)

\* A piece of text; the repr of a list (of candidates, of denylist entries),
\* kept as the list.
Text(str) == [s |-> str, ecs |-> <<>>]

ReprOf(ecs) == [s |-> "", ecs |-> ecs]

\* A piece given by its code points.
Chars(cps) == [s |-> "chars", ecs |-> cps]

\* json.dumps(candidates, ensure_ascii=False), kept as the list.
DumpsOf(ecs) == [s |-> "json.dumps", ecs |-> ecs]

_VALIDATOR_FEWSHOTS == "_VALIDATOR_FEWSHOTS"

\* The functions whose prompts carry the denylist: every one but those of
\* src/chained_net_call.py.
DenylistKinds == {"ecs", "local_var", "pass_as_arg", "validate_ecs", "validate_lambda", "lambda"}

_RUNA_SYSTEM == "_RUNA_SYSTEM"

_RUNA_FEWSHOTS == "_RUNA_FEWSHOTS"

_EXPLAIN_LINES_SYSTEM == "_EXPLAIN_LINES_SYSTEM"

_RUNB_SYSTEM == "_RUNB_SYSTEM"

_RUNB_FEWSHOTS == "_RUNB_FEWSHOTS"

_VALIDATOR_SYSTEM == "_VALIDATOR_SYSTEM"

\* f"DENYLIST: {deny}\n\n": the list deny refers to, formatted when the
\* prompt is built.
DenyLine(deny) == << Text("\nDENYLIST: "), ReprOf(deny), Text("\n\n") >>

\* The lines every extraction and validation prompt starts with:
\* src/chained_net_call.py:92 and :132, src/local_variable_declaration.py:118-119,
\* src/Argument.py:185-189, src/Correction.py:1105-1110 and src/newlambda.py:197-201.
Header(req, deny) ==
    CASE kind \notin DenylistKinds ->
           << Text("FOCUS_CALL_RESULT: "), Text(req.object_name),
              Text("\nANCHOR_LINE: "), Text(ToString(req.java_code_line)),
              Text("\nANCHOR_LINE_CONTENT: "), Text(req.java_code_line_content),
              Text("\nANALYTICAL_CHAIN: "), Text(req.analytical_chain),
              Text("\n\n") >>
      [] kind = "local_var" ->
           << Text("FOCUS_NAME: "), Text(req.object_name),
              Text("\nANCHOR_LINE: "), Text(ToString(req.java_code_line)),
              Text("\nANCHOR_LINE_CONTENT: "), Text(req.java_code_line_content),
              Text("\nANALYTICAL_CHAIN: "), Text(req.analytical_chain) >> \o DenyLine(deny)
      [] OTHER ->
           << Text(IF kind = "pass_as_arg" THEN "FOCUS_OBJECT: " ELSE "FOCUS_NAME: "),
              Text(req.object_name),
              Text("\nANCHOR_LINE (1-based): "), Text(ToString(req.java_code_line)),
              Text("\nANCHOR_LINE_CONTENT: "), Text(req.java_code_line_content),
              Text("\nANALYTICAL_CHAIN ("), Chars(<<8804>>), Text("2): "),
              Text(req.analytical_chain) >> \o DenyLine(deny)

_build_run_a_user(req, deny) ==
    Header(req, deny) \o << Text("CODE:\n"), Text(req.java_code), Text("\n\n"),
                      Text(_RUNA_FEWSHOTS),
                      Text(CASE kind \in {"ecs", "local_var"} ->
                                  "\nOutput JSON: {\"children\":[EC,...]} ONLY."
                             [] kind = "pass_as_arg" ->
                                  "\nOutput JSON schema: {\"children\":[EC,...]}\nReturn ONLY the JSON object."
                             [] OTHER ->
                                  "\nReturn ONLY {\"children\":[EC,...]}.") >>

_SYSTEM == "_SYSTEM"

_FEWSHOTS == "_FEWSHOTS"

\* The one prompt of extract_lambda_children.
_build_user(req, deny) ==
    Header(req, deny) \o << Text("CODE:\n"), Text(req.java_code), Text("\n\n"),
                      Text(_FEWSHOTS),
                      Text("\nReturn ONLY the JSON object.") >>

\* No _build_run_b_user has a code parameter: the prompt is the header and
\* the dumped paraphrase lines.
_build_run_b_user(req, lines, deny) ==
    Header(req, deny) \o
        (IF kind \in {"ecs", "pass_as_arg"}
         THEN << Text("LINES_NL (JSON array of {line:int,text:str}):\n"),
                 Chars(lines), Text("\n\n"), Text(_RUNB_FEWSHOTS),
                 Text(IF kind = "ecs"
                      THEN "\nReturn ONLY the JSON object with schema: {'children':[EC,...]}."
                      ELSE "\nOutput JSON schema: {\"children\":[EC,...]}\nReturn ONLY the JSON object.") >>
         ELSE << Text("LINES_NL:\n"), Chars(lines),
                 Text("\nReturn ONLY the JSON object.") >>)

ExplainUser(req) == << Text("CODE:\n"), Text(req.java_code) >>

ValidateUser(req, cands, deny) ==
    Header(req, deny) \o
        CASE kind = "validate_ecs" ->
               << Text("CANDIDATES (JSON array of EC objects):\n"), ReprOf(cands),
                  Text("\n\nCODE:\n"), Text(req.java_code), Text("\n\n"),
                  Text(_VALIDATOR_FEWSHOTS),
                  Text("\nOutput schema: {\"verdicts\":[{\"name\":\"...\",\"valid\":true|false,\"confidence\":0.0,\"reason\":\"...\"}]}\n"),
                  Text("Return ONLY the JSON object.") >>
          [] kind = "validate_lambda" ->
               << Text("CANDIDATES (JSON EC[]):\n"), DumpsOf(cands),
                  Text("\n\nCODE:\n"), Text(req.java_code),
                  Text("\nReturn ONLY the JSON object.") >>
          [] OTHER ->
               << Text("CANDIDATES:\n"), ReprOf(cands),
                  Text("\n\nCODE:\n"), Text(req.java_code),
                  Text("\nReturn ONLY the JSON object.") >>

\* The reminder of _invoke_json and of _invoke_structured.
Reminder ==
    CASE kind = "invoke_structured" ->
           "\n\nREMINDER: Return ONLY a valid JSON object. Use empty lists when unsure."
      [] kind \in {"validate_lambda", "lambda"} ->
           "\n\nREMINDER: Return ONLY a valid JSON object. If nothing, return {\"children\": []}."
      [] OTHER ->
           "\n\nREMINDER: Return ONLY a valid JSON object. If nothing, return {'children': []}."

\* Variant of WithReminder that repeats the first prompt.
WithoutReminder(user) == user

\* user2 = user + "\n\nREMINDER: ..."
WithReminder(user) == Append(user, Text(Reminder))

----------------------------------------------------------------------------
(* Requests, candidates and responses the calls are run with                *)

Req(object_name, java_code, java_code_line, java_code_line_content, analytical_chain) == [object_name |-> object_name, java_code |-> java_code, java_code_line |-> java_code_line, java_code_line_content |-> java_code_line_content, analytical_chain |-> analytical_chain]

JavaCode == "x.a().b();\ny.c().d();"

\* A source of one line: the anchor line is the whole source.
OneLine == "x.a().b();"

Requests ==
    { Req("a", JavaCode, 1, "x.a().b();", "x"),
      Req("c", JavaCode, 2, "y.c().d();", ""),
      Req("a", OneLine, 1, OneLine, "") }

\* Two items with the same merge key, one with another name, one whose
\* confidence is no number, one without a name.
ItemF == BaseItem

ItemF2 == [BaseItem EXCEPT !.confidence = RInt(7), !.code_block = RStr(<<>>), !.guards = RList(<<Str_b>>), !.variant = RInt(0)]

ItemB == [BaseItem EXCEPT !.name = RStr(Str_b)]

ItemHigh == [BaseItem EXCEPT !.confidence = RStr(Str_high)]

ItemNoName == [BaseItem EXCEPT !.name = Missing]

\* The list <<ItemF, ItemF2>> names one candidate twice.
ChildLists == { <<>>, <<ItemF>>, <<ItemF2>>, <<ItemB, ItemF>>, <<ItemF, ItemF2>>, <<ItemHigh>>, <<ItemNoName, ItemF2>> }

ChildResponses ==
    {FailResponse, ListResponse}
      \cup {ChildrenResponse(v) : v \in {NoKey, JNone, JInt}}
      \cup {ChildrenResponse(JItems(l)) : l \in ChildLists}

\* The texts  call "a"  and  c\d  followed by a newline.
Str_call == <<99, 97, 108, 108, 32, 34, 97, 34>>

Str_path == <<99, 92, 100, 10>>

LineLists == { <<>>, <<[line |-> 1, text |-> Str_call], [line |-> 2, text |-> Str_path]>> }

ExplainResponses ==
    {FailResponse, ListResponse, LinesResponse(NoKey)}
      \cup {LinesResponse(JItems(l)) : l \in LineLists}

VerdictB == RawVerdict(RStr(<<32>> \o Str_b), RBool(TRUE), RFloat(900), RStr(Str_x))

VerdictD == RawVerdict(RStr(Str_s), RBool(FALSE), RInt(7), Missing)

VerdictHigh == RawVerdict(RStr(Str_b), RBool(TRUE), RStr(Str_high), RStr(Str_x))

VerdictNoName == RawVerdict(Missing, RBool(TRUE), RStr(Str_high), RStr(Str_x))

VerdictNaN == RawVerdict(RStr(Str_b), RBool(FALSE), PyNaN, RStr(Str_x))

VerdictLists == { <<>>, <<VerdictB>>, <<VerdictB, VerdictD>>, <<VerdictHigh>>, <<VerdictNoName, VerdictB>>, <<VerdictNaN>>, <<VerdictD, VerdictB, VerdictB>> }

VerdictResponses ==
    {FailResponse, ListResponse}
      \cup {VerdictsResponse(v) : v \in {NoKey, JNone}}
      \cup {VerdictsResponse(JItems(l)) : l \in VerdictLists}

CandidateLists ==
    { <<>>,
      <<EC(Str_b, Str_s, Str_x, TRUE, 500, FALSE, <<>>)>>,
      <<EC(Str_b, Str_s, Str_x, TRUE, 500, FALSE, <<>>), EC(Str_s, Str_s, Empty, FALSE, 1000, FALSE, <<Str_a>>)>> }

\* extract_chained_next_call, extract_object_instantiations,
\* extract_local_variable_declarations and extract_pass_as_arg.
ExtractKinds == {"by_name", "ecs", "local_var", "pass_as_arg"}

\* extract_lambda_children
SingleRunKinds == {"lambda"}

HelperKinds == {"invoke_json", "invoke_structured"}

Sites == {"runA", "explain", "runB", "validate", "invoke", "single"}

Responses(site) ==
    CASE site \in {"runA", "runB", "single"} -> ChildResponses
      [] site = "explain"          -> ExplainResponses
      [] site = "validate"         -> VerdictResponses
      [] site = "invoke"           -> {FailResponse, ListResponse, ChildrenResponse(NoKey)}

----------------------------------------------------------------------------
(* extract_chained_next_call (kind "by_name"), extract_object_instantiations*)
(* (kind "ecs"), extract_local_variable_declarations (kind "local_var"),    *)
(* extract_pass_as_arg (kind "pass_as_arg"), extract_lambda_children (kind  *)
(* "lambda"), the validate functions (ValidateKinds) and a bare call of     *)
(* _invoke_json / _invoke_structured, one step per llm.invoke               *)

FirstSite(k) ==
    CASE k \in ExtractKinds -> "runA"
      [] k \in SingleRunKinds -> "single"
      [] k \in ValidateKinds -> "validate"
      [] k \in HelperKinds  -> "invoke"

ExtractInit ==
    /\ kind \in ExtractKinds \cup SingleRunKinds \cup ValidateKinds \cup HelperKinds
    /\ request \in Requests
    /\ candidates \in (IF kind \in ValidateKinds THEN CandidateLists ELSE {<<>>})
    /\ retry \in (IF kind \in HelperKinds THEN BOOLEAN ELSE {TRUE})
    /\ attempt = 0
    /\ calls = <<>>
    /\ explained_json = <<>>
    /\ outcome = NoOutcome
    /\ pc = FirstSite(kind)
    /\ MergeIdle
    /\ NestedIdle
    /\ NormIdle
    /\ PairIdle

System(site) ==
    CASE site = "runA"     -> _RUNA_SYSTEM
      [] site = "explain"  -> _EXPLAIN_LINES_SYSTEM
      [] site = "runB"     -> _RUNB_SYSTEM
      [] site = "validate" -> _VALIDATOR_SYSTEM
      [] site = "invoke"   -> "system"
      [] site = "single"   -> _SYSTEM

\* deny = denylist or DEFAULT_DENYLIST, no denylist being passed: the list the
\* module-level name is bound to.
Deny == heap[globals.DEFAULT_DENYLIST]

User(site) ==
    CASE site = "runA"     -> _build_run_a_user(request, Deny)
      [] site = "explain"  -> ExplainUser(request)
      [] site = "runB"     -> _build_run_b_user(request, explained_json, Deny)
      [] site = "validate" -> ValidateUser(request, candidates, Deny)
      [] site = "invoke"   -> <<Text("user")>>
      [] site = "single"   -> _build_user(request, Deny)

\* llm.invoke([SystemMessage(content=system), HumanMessage(content=user)])
Logged(user, r) == Append(calls, [site |-> pc, system |-> System(pc), user |-> user, response |-> r])

\* An exception leaves the function: nothing is returned.
Raises(err) ==
    /\ pc' = "raised"
    /\ outcome' = [status |-> "raised", err |-> err]
    /\ UNCHANGED <<attempt, a, b, out, explained_json, candidates>>

\* a = _norm_ec_list(...)
AfterRunA(v) ==
    /\ a' = v
    /\ pc' = "explain"
    /\ attempt' = 0
    /\ UNCHANGED <<b, out, explained_json, outcome, candidates>>

\* explained_json = json.dumps(...)
AfterExplain(v) ==
    /\ explained_json' = v
    /\ pc' = "runB"
    /\ attempt' = 0
    /\ UNCHANGED <<a, b, out, outcome, candidates>>

\* b = _norm_ec_list(...); return _merge_by_name(a, b) / _merge_ecs(a, b):
\* the merge overwrites the records of a and b it stored, so the two lists
\* hold the merged fields when the function returns.
AfterRunB(v) ==
    /\ LET st == MergeRun(a, v)
       IN /\ a' = SubSeq(st.heap, 1, Len(a))
          /\ b' = SubSeq(st.heap, Len(a) + 1, Len(a) + Len(v))
          /\ out' = MergeResult(st)
    /\ pc' = "returned"
    /\ outcome' = [status |-> "returned", err |-> ""]
    /\ UNCHANGED <<attempt, explained_json, candidates>>

\* children = _norm_ec_list(...); return _merge_by_name_keep_best(children, []):
\* the first record of a repeated name is overwritten in place.
AfterSingleRun(v) ==
    /\ LET st == MergeByNameRun(v, <<>>)
       IN /\ a' = st.heap
          /\ out' = MergeByNameResult(st)
    /\ pc' = "returned"
    /\ outcome' = [status |-> "returned", err |-> ""]
    /\ UNCHANGED <<attempt, b, explained_json, candidates>>

\* Variant of AfterLastCall: the candidates judged invalid are deleted from
\* the list the caller passed.
ReturnAndPrune(v) ==
    /\ out' = v
    /\ pc' = "returned"
    /\ outcome' = [status |-> "returned", err |-> ""]
    /\ candidates' = SelectSeq(candidates, LAMBDA c : \A i \in 1..Len(v) : v[i].name = c.name => v[i].valid)
    /\ UNCHANGED <<attempt, a, b, explained_json>>

\* return vs; the helper called on its own returns the parsed value.  The
\* candidates are read once, for the prompt, and never assigned.
AfterLastCall(v) ==
    /\ out' = v
    /\ pc' = "returned"
    /\ outcome' = [status |-> "returned", err |-> ""]
    /\ UNCHANGED <<attempt, a, b, explained_json, candidates>>

\* What the caller computes from the parsed value j of a call site.
Parsed(j) ==
    CASE pc \in {"runA", "runB", "single"} -> NormChildren(j)
      [] pc = "explain"          -> ExplainedJson(j)
      [] pc = "validate"         -> Verdicts(j)
      [] pc = "invoke"           -> Ok(<<j>>)

\* An exception of that computation leaves the function; otherwise the
\* function goes on to its next statement.
Handle(n) ==
    IF n.err # "" THEN Raises(n.err)
    ELSE CASE pc = "runA"    -> AfterRunA(n.v)
           [] pc = "explain" -> AfterExplain(n.v)
           [] pc = "runB"    -> AfterRunB(n.v)
           [] pc = "single"  -> AfterSingleRun(n.v)
           [] OTHER          -> AfterLastCall(n.v)

Continue(j) == Handle(Parsed(j))

\* Variant of Propagate: a failed last attempt counts as an empty answer.
SubstituteEmpty == Continue(ChildrenResponse(NoKey))

\* The exception of the last attempt leaves the helper and the caller.
Propagate == Raises("InferenceError")

\* try: return json.loads(llm.invoke(msgs).content)
\* except Exception: if not retry: raise
FirstAttempt ==
    /\ pc \in Sites
    /\ attempt = 0
    /\ \E r \in Responses(pc) :
         /\ calls' = Logged(User(pc), r)
         /\ IF r.t # "fail" THEN Continue(r)
            ELSE IF ~retry THEN Propagate
            ELSE /\ attempt' = 1
                 /\ UNCHANGED <<pc, a, b, out, explained_json, outcome, candidates>>
    /\ UNCHANGED <<kind, argA, argB, request, retry>>
    /\ UNCHANGED <<nestedVars, normVars, pairVars>>

\* user2 = user + reminder; return json.loads(llm.invoke([..., user2]).content)
SecondAttempt ==
    /\ pc \in Sites
    /\ attempt = 1
    /\ \E r \in Responses(pc) :
         /\ calls' = Logged(WithReminder(User(pc)), r)
         /\ IF r.t # "fail" THEN Continue(r) ELSE Propagate
    /\ UNCHANGED <<kind, argA, argB, request, retry>>
    /\ UNCHANGED <<nestedVars, normVars, pairVars>>

ExtractNext ==
    \/ FirstAttempt
    \/ SecondAttempt

SpecExtract == ExtractInit /\ [][ExtractNext]_vars

----------------------------------------------------------------------------
(* C17 - C20: inference calls of extract and validate *)

CallsAt(site) == SelectSeq(calls, LAMBDA c : c.site = site)

Failed(c) == c.response.t = "fail"

\* Both attempts of the call site failed.
DoubleFailure(site) ==
    /\ Len(CallsAt(site)) = 2
    /\ \A i \in 1..2 : Failed(CallsAt(site)[i])

IsReminder(part) == part \in {Text("\n\nREMINDER: Return ONLY a valid JSON object. Use empty lists when unsure."), Text("\n\nREMINDER: Return ONLY a valid JSON object. If nothing, return {'children': []}."), Text("\n\nREMINDER: Return ONLY a valid JSON object. If nothing, return {\"children\": []}.")}

\* C17: a call site invokes the model at most twice; the second invocation
\* follows a failed first one, has the same system prompt and the first user
\* prompt with a reminder appended; when it fails too the call raises that
\* error and returns nothing; a successful first attempt is the only one.
C17_SingleRetry ==
    \A site \in Sites :
        LET cs == CallsAt(site)
        IN /\ Len(cs) <= 2
           /\ Len(cs) = 2 =>
                /\ Failed(cs[1])
                /\ cs[2].system = cs[1].system
                /\ Len(cs[2].user) = Len(cs[1].user) + 1
                /\ SubSeq(cs[2].user, 1, Len(cs[1].user)) = cs[1].user
                /\ IsReminder(cs[2].user[Len(cs[2].user)])
           /\ DoubleFailure(site) =>
                /\ pc = "raised"
                /\ outcome = [status |-> "raised", err |-> "InferenceError"]
                /\ out = <<>>
           /\ (Len(cs) >= 1 /\ ~Failed(cs[1])) => Len(cs) = 1

\* A bare _invoke_structured call whose first attempt failed and whose
\* retry returned a parsed value.
C17_Witness ==
    /\ kind = "invoke_structured"
    /\ pc = "returned"
    /\ Len(CallsAt("invoke")) = 2
    /\ out # <<>>

ExtractSites == <<"runA", "explain", "runB">>

\* C18: when one of the three inference calls of an extract fails on both
\* attempts, the extract raises, returns no candidate, and that failed call
\* is the last one: no later call site is reached and nothing is merged.
C18_NoPartialResult ==
    \A i \in 1..3 :
        DoubleFailure(ExtractSites[i]) =>
            /\ pc = "raised"
            /\ outcome.status = "raised"
            /\ out = <<>>
            /\ calls[Len(calls)].site = ExtractSites[i]
            /\ \A k \in (i + 1)..3 : CallsAt(ExtractSites[k]) = <<>>

\* The paraphrase call failed twice after the raw run had produced
\* candidates.
C18_Witness ==
    /\ DoubleFailure("explain")
    /\ a # <<>>
    /\ pc = "raised"

Carries(user, str) == \E k \in 1..Len(user) : user[k].s = str

\* A paraphrase-based extraction call comes after a paraphrase call that
\* returned a parsed result, and its prompt carries the dumped lines of it.
RunBAfterParaphrase ==
    \A i \in 1..Len(calls) :
        calls[i].site = "runB" =>
            \E j \in 1..(i - 1) :
                /\ calls[j].site = "explain"
                /\ ~Failed(calls[j])
                /\ ExplainedJson(calls[j].response).err = ""
                /\ Contains(calls[i].user, Chars(ExplainedJson(calls[j].response).v))

\* The prompt of a paraphrase-based extraction call has no CODE section and
\* no part of it is the source text of the request.
RunBWithoutSource ==
    \A i \in 1..Len(calls) :
        calls[i].site = "runB" =>
            /\ ~Carries(calls[i].user, "CODE:\n")
            /\ ~Carries(calls[i].user, request.java_code)

\* A result exists only after both extraction calls succeeded, and it is
\* merge(list of the raw run, list of the paraphrase run) of the lists the
\* normalizer made of the two responses.
MergeOfBothRuns ==
    /\ out # <<>> => pc = "returned"
    /\ pc = "returned" =>
         \E i, j \in 1..Len(calls) :
            /\ i < j
            /\ calls[i].site = "runA"
            /\ calls[j].site = "runB"
            /\ ~Failed(calls[i])
            /\ ~Failed(calls[j])
            /\ out = Merge(NormChildren(calls[i].response).v, NormChildren(calls[j].response).v)

\* C19: a paraphrase-based extraction call comes after a paraphrase call
\* that returned a parsed result, its prompt carries the dumped paraphrase
\* lines and not the source text, and a result exists only after both
\* extraction calls succeeded and is merge(raw-run list, paraphrase-run list).
C19_CallOrdering ==
    kind \in ExtractKinds =>
        /\ RunBAfterParaphrase
        /\ RunBWithoutSource
        /\ MergeOfBothRuns

\* C20: a call of extract or validate returns a list or raises the error of
\* an inference call that failed twice; when no call site failed twice the
\* caller receives a list.
C20_OnlyTwoOutcomes ==
    (kind \in ExtractKinds \cup ValidateKinds /\ pc \in {"returned", "raised"}) =>
        /\ \/ outcome.status = "returned"
           \/ outcome.err = "InferenceError" /\ \E site \in Sites : DoubleFailure(site)
        /\ (\A site \in Sites : ~DoubleFailure(site)) => outcome.status = "returned"

----------------------------------------------------------------------------
(* C21 - C23: the validate functions *)

\* The verdict entries of the response the validate call returned from.
GivenVerdicts == calls[Len(calls)].response.verdicts.items

NamedVerdicts == Survivors(GivenVerdicts)

CandidateNames == {candidates[i].name : i \in 1..Len(candidates)}

\* C21: no step of a validate call, successful or failed, changes the
\* candidates list it received: length, order and field values stay as they
\* were, whatever verdicts the model returned.
C21_CandidatesUnchanged == [][(kind \in ValidateKinds) => (candidates' = candidates)]_vars

\* validate returned a verdict that judges one of two candidates invalid.
C21_Witness ==
    /\ kind \in ValidateKinds
    /\ pc = "returned"
    /\ Len(candidates) = 2
    /\ \E i \in 1..Len(out) : ~out[i].valid /\ out[i].name \in CandidateNames

\* C22: every verdict a validate function returns has a non-empty trimmed
\* name and a confidence in [0,1]; entries with an empty or missing name are
\* dropped without error, and the verdicts kept are in the order of the
\* response.
C22_CleanVerdicts ==
    /\ (kind \in ValidateKinds /\ pc = "returned") =>
          /\ \A i \in 1..Len(out) :
                /\ Trimmed(out[i].name)
                /\ out[i].confidence \in 0..1000
          /\ Len(out) = Len(NamedVerdicts)
          /\ \A i \in 1..Len(out) : out[i].name = Strip(PyStr(NamedVerdicts[i].name))
    /\ (kind \in ValidateKinds /\ pc = "raised" /\ ~Failed(calls[Len(calls)])) =>
          NamedVerdicts = GivenVerdicts

\* C23: validate returns at most one verdict for each candidate name: no two
\* verdicts share a name, every verdict names a candidate passed in, and the
\* list is not longer than the candidate list.
C23_OneVerdictPerCandidate ==
    (kind \in ValidateKinds /\ pc = "returned") =>
        /\ NoRepeat([i \in 1..Len(out) |-> out[i].name])
        /\ \A i \in 1..Len(out) : out[i].name \in CandidateNames
        /\ Len(out) <= Len(candidates)

----------------------------------------------------------------------------
(* Two extraction requests at once: each request is one call of the same    *)
(* extractor with its own locals; a step is one llm.invoke of one of them.  *)
(* The two calls run in one process: the dicts they create live in one      *)
(* object memory (heap) and both read the module-level names (globals).     *)

PairSites == {"runA", "explain", "runB"}

PairResponses(site) ==
    CASE site = "runA"    -> {ListResponse, ChildrenResponse(JItems(<<ItemF>>)), ChildrenResponse(JItems(<<ItemB, ItemF>>))}
      [] site = "explain" -> {FailResponse} \cup {LinesResponse(JItems(l)) : l \in LineLists}
      [] site = "runB"    -> {FailResponse, ListResponse, ChildrenResponse(JItems(<<ItemF2>>))}

\* The locals of a call that has not made its first inference call.  deny,
\* a and b hold references, the positions of objects in `heap`: deny that of
\* the module-level list (deny = denylist or DEFAULT_DENYLIST), a and b
\* those of the dicts the lists hold.
Frame(req) == [request |-> req, deny |-> ModuleGlobals.DEFAULT_DENYLIST, pc |-> "runA", attempt |-> 0, a |-> <<>>, b |-> <<>>, explained_json |-> <<>>, out |-> <<>>, err |-> "", calls |-> <<>>]

\* The same request twice, and two requests that differ in every field.
RequestPairs ==
    { <<Req("a", JavaCode, 1, "x.a().b();", "x"), Req("a", JavaCode, 1, "x.a().b();", "x")>>,
      <<Req("a", OneLine, 1, OneLine, ""), Req("c", JavaCode, 2, "y.c().d();", "x")>> }

PairInit ==
    /\ kind \in ExtractKinds
    /\ frames \in {<<Frame(rs[1]), Frame(rs[2])>> : rs \in RequestPairs}
    /\ globals = ModuleGlobals
    /\ heap = ModuleHeap
    /\ pc = "pair"
    /\ MergeIdle
    /\ NestedIdle
    /\ NormIdle
    /\ ExtractIdle

\* The dicts a list of references holds.
Deref(refs, h) == [i \in 1..Len(refs) |-> h[refs[i]]]

\* The references of the dicts _norm_ec_list creates for a response: new
\* objects, behind every object that exists.
Allocated(h, recs) == [i \in 1..Len(recs) |-> Len(h) + i]

\* One iteration of the loop of push of the merge function of the call.
MergeStep(st, r) ==
    CASE kind = "ecs"      -> MergeEcsStep(st, r)
      [] kind = "ec_lists" -> MergeEcListsStep(st, r)
      [] OTHER             -> MergeByNameStep(st, r)

RECURSIVE PushRefs(_, _)
PushRefs(st, refs) ==
    IF refs = <<>> THEN st ELSE PushRefs(MergeStep(st, Head(refs)), Tail(refs))

\* by = {}; push(a); push(b) on the objects of the process: the accumulator
\* starts empty in every call of the merge function.
MergeRefs(h, ra, rb) == PushRefs([heap |-> h, by |-> <<>>], ra \o rb)

\* Variant of RunBUser: the run-A candidates are appended to the prompt.
RunBUserWithRunA(f, h) == _build_run_b_user(f.request, f.explained_json, h[f.deny]) \o <<ReprOf(Deref(f.a, h))>>

\* user=_build_run_b_user(explained_json, focus, anchor, anchor_content, chain, deny)
RunBUser(f, h) == _build_run_b_user(f.request, f.explained_json, h[f.deny])

FrameUser(f, h) ==
    CASE f.pc = "runA"    -> _build_run_a_user(f.request, h[f.deny])
      [] f.pc = "explain" -> ExplainUser(f.request)
      [] f.pc = "runB"    -> RunBUser(f, h)

\* The user prompt of the attempt the call is about to make.
Sent(f, h) == IF f.attempt = 0 THEN FrameUser(f, h) ELSE WithReminder(FrameUser(f, h))

Called(f, r, h) == [f EXCEPT !.calls = Append(@, [site |-> f.pc, user |-> Sent(f, h), response |-> r])]

FrameRaises(f, err) == [f EXCEPT !.pc = "raised", !.err = err]

FrameParsed(f, j) == IF f.pc = "explain" THEN ExplainedJson(j) ELSE NormChildren(j)

\* The locals and the objects after the statement that follows a parsed
\* response; h holds the objects before it.  The merge writes into the
\* dicts the lists a and b hold; the list it returns is kept as the fields
\* its records have at the return.
FrameHandle(f, n, h) ==
    IF n.err # "" THEN [f |-> FrameRaises(f, n.err), heap |-> h]
    ELSE CASE f.pc = "runA" ->
                [f |-> [f EXCEPT !.a = Allocated(h, n.v), !.pc = "explain", !.attempt = 0],
                 heap |-> h \o n.v]
           [] f.pc = "explain" ->
                [f |-> [f EXCEPT !.explained_json = n.v, !.pc = "runB", !.attempt = 0],
                 heap |-> h]
           [] f.pc = "runB" ->
                LET rb == Allocated(h, n.v)
                    st == MergeRefs(h \o n.v, f.a, rb)
                IN [f |-> [f EXCEPT !.b = rb, !.out = MergeResult(st), !.pc = "returned"],
                    heap |-> st.heap]

\* Variant of DenyRead: the focus name is appended to the list, deny.append(focus).
DenyWithFocus(f, h) == [h EXCEPT ![f.deny] = Append(@, f.request.object_name)]

\* What a call does with the list deny refers to: it formats it into the
\* prompt; no statement calls a method of it or stores into it.
DenyRead(f, h) == h

\* The locals of a call and the objects after the response r to its next
\* inference call.
FrameAfter(f, r, h) ==
    LET hd == DenyRead(f, h)
    IN IF r.t # "fail" THEN FrameHandle(Called(f, r, h), FrameParsed(f, r), hd)
       ELSE IF f.attempt = 0 THEN [f |-> [Called(f, r, h) EXCEPT !.attempt = 1], heap |-> hd]
       ELSE [f |-> FrameRaises(Called(f, r, h), "InferenceError"), heap |-> hd]

\* No function of the module has a global statement: the module-level names
\* stay bound as they are.
PairStep(p) ==
    /\ frames[p].pc \in PairSites
    /\ \E r \in PairResponses(frames[p].pc) :
         LET after == FrameAfter(frames[p], r, heap)
         IN /\ frames' = [frames EXCEPT ![p] = after.f]
            /\ heap' = after.heap
    /\ UNCHANGED globals
    /\ UNCHANGED <<mergeVars, nestedVars, normVars, extractVars>>

PairNext == \E p \in 1..2 : PairStep(p)

SpecPair == PairInit /\ [][PairNext]_vars

----------------------------------------------------------------------------
(* C24 - C25: two requests *)

ResponsesAt(f, site) ==
    LET cs == SelectSeq(f.calls, LAMBDA c : c.site = site)
    IN [i \in 1..Len(cs) |-> cs[i].response]

PromptsAt(f, site) ==
    LET cs == SelectSeq(f.calls, LAMBDA c : c.site = site)
    IN [i \in 1..Len(cs) |-> cs[i].user]

\* A call run from the locals and objects w with the given responses,
\* nothing else running.
RECURSIVE Replay(_, _)
Replay(w, rs) ==
    IF rs = <<>> THEN w ELSE Replay(FrameAfter(w.f, Head(rs), w.heap), Tail(rs))

\* The call of f run from its start in a process of its own: no other call
\* has created an object, the module is as it is after import.
Alone(f) ==
    Replay([f |-> Frame(f.request), heap |-> ModuleHeap],
           [i \in 1..Len(f.calls) |-> f.calls[i].response])

Finished(f) == f.pc \in {"returned", "raised"}

\* The objects the lists of a call hold.
Owned(f) == {f.a[i] : i \in 1..Len(f.a)} \cup {f.b[i] : i \in 1..Len(f.b)}

\* C24: of two requests interleaved at the inference calls, each sends the
\* prompts and returns (or raises) what it does when run alone with the same
\* responses, the records of its lists are those it holds alone at every
\* later moment, every object the merge accumulator stored belongs to one
\* request, and no module-level value is ever written: the names stay bound
\* as at import and the list DEFAULT_DENYLIST keeps its entries.
C24_RequestIsolation ==
    /\ globals = ModuleGlobals
    /\ heap[globals.DEFAULT_DENYLIST] = DEFAULT_DENYLIST
    /\ \A p \in 1..Len(frames) :
          LET alone == Alone(frames[p])
          IN /\ frames[p].pc = alone.f.pc
             /\ frames[p].err = alone.f.err
             /\ frames[p].out = alone.f.out
             /\ frames[p].calls = alone.f.calls
             /\ frames[p].explained_json = alone.f.explained_json
             /\ Deref(frames[p].a, heap) = Deref(alone.f.a, alone.heap)
             /\ Deref(frames[p].b, heap) = Deref(alone.f.b, alone.heap)
    /\ \A r \in 1..Len(heap) :
          Cardinality({p \in 1..Len(frames) : r \in Owned(frames[p])}) =
              IF r = globals.DEFAULT_DENYLIST THEN 0 ELSE 1

\* Two different requests both returned, with different merged lists; the
\* second made its raw run between the two runs of the first, and the merge
\* of the first wrote into a record of its raw-run list.
C24_Witness ==
    /\ Len(frames) = 2
    /\ frames[1].request # frames[2].request
    /\ frames[1].pc = "returned"
    /\ frames[2].pc = "returned"
    /\ frames[1].out # <<>>
    /\ frames[1].out # frames[2].out
    /\ frames[1].a # <<>> /\ frames[2].a # <<>> /\ frames[1].b # <<>>
    /\ frames[1].a[1] < frames[2].a[1]
    /\ frames[2].a[1] < frames[1].b[1]
    /\ Deref(frames[1].a, heap) # NormChildren(ResponsesAt(frames[1], "runA")[Len(ResponsesAt(frames[1], "runA"))]).v

\* The prompts two calls sent at a site agree as far as both sent one.
SamePrompts(f, g, site) ==
    \A i \in 1..Len(PromptsAt(f, site)) :
        i <= Len(PromptsAt(g, site)) => PromptsAt(f, site)[i] = PromptsAt(g, site)[i]

\* C25: two executions of one request whose paraphrase responses agree send
\* the same paraphrase prompts and the same run-B prompts, whatever the raw
\* run answered; their raw-run prompts agree whatever the paraphrase was.
C25_DataIndependence ==
    \A p, q \in 1..Len(frames) :
        frames[p].request = frames[q].request =>
            /\ ResponsesAt(frames[p], "explain") = ResponsesAt(frames[q], "explain") =>
                  /\ PromptsAt(frames[p], "explain") = PromptsAt(frames[q], "explain")
                  /\ SamePrompts(frames[p], frames[q], "runB")
            /\ SamePrompts(frames[p], frames[q], "runA")

\* The same request twice, the raw runs answered with different parseable
\* lists, the paraphrase identically and with lines; both sent their run-B
\* prompt and returned.
C25_Witness ==
    /\ Len(frames) = 2
    /\ frames[1].request = frames[2].request
    /\ ResponsesAt(frames[1], "runA") # ResponsesAt(frames[2], "runA")
    /\ Deref(frames[1].a, heap) # Deref(frames[2].a, heap)
    /\ ResponsesAt(frames[1], "explain") = ResponsesAt(frames[2], "explain")
    /\ frames[1].explained_json # <<91, 93>>
    /\ PromptsAt(frames[1], "runB") # <<>>
    /\ PromptsAt(frames[2], "runB") # <<>>
    /\ frames[1].pc = "returned"
    /\ frames[2].pc = "returned"

----------------------------------------------------------------------------
(* C26: the dual run *)

SitesCalled == [i \in 1..Len(calls) |-> calls[i].site]

\* The list the normalizer made of the response of the one call at a site.
ListAt(site) == NormChildren(CallsAt(site)[1].response).v

\* C26: every extractor entry point, extract_lambda_children included, makes
\* exactly three inference calls on a request none of whose calls fails (raw
\* extraction, paraphrase, paraphrase extraction) and returns the merge of
\* the two candidate lists.
C26_DualRunEverywhere ==
    (/\ kind \in ExtractKinds \cup SingleRunKinds
     /\ pc = "returned"
     /\ \A i \in 1..Len(calls) : ~Failed(calls[i])) =>
        /\ SitesCalled = <<"runA", "explain", "runB">>
        /\ out = Merge(ListAt("runA"), ListAt("runB"))

----------------------------------------------------------------------------
(* The merge by child_name of extract_method_calls (src/T.py, kind          *)
(* "method_calls") and of extract_method_definition_children                *)
(* (src/Correction.py, kind "method_definition").  argA and argB are the    *)
(* validated outputs out_a and out_b of the two runs.                       *)

MCItem(child_name, code_snippet, code_block) == [child_name |-> child_name, code_snippet |-> code_snippet, code_block |-> code_block]

MDItem(child_name, code_snippet, code_block, requires_definition_expansion) == [child_name |-> child_name, code_snippet |-> code_snippet, code_block |-> code_block, requires_definition_expansion |-> requires_definition_expansion]

\* MCOut / MDOut: the children and, for MDOut, the mode hint.
RunOut(children, mode) == [children |-> children, mode |-> mode]

ChildRecord(child_name, child_type, code_snippet, code_block, further_expand, found_in) == [child_name |-> child_name, child_type |-> child_type, code_snippet |-> code_snippet, code_block |-> code_block, further_expand |-> further_expand, found_in |-> found_in]

\* The record _push builds from one item.
PushRecord(name, it, source) == [child_name |-> name, child_type |-> IF it.requires_definition_expansion THEN "Method Definition" ELSE "Method Call", code_snippet |-> Strip(it.code_snippet), code_block |-> Strip(it.code_block), further_expand |-> it.requires_definition_expansion, found_in |-> source, requires_definition_expansion |-> it.requires_definition_expansion]

\* merged.get(name): the position of the record of that name, 0 for None.
Position(merged, name) ==
    IF \E i \in 1..Len(merged) : merged[i].child_name = name
    THEN CHOOSE i \in 1..Len(merged) : merged[i].child_name = name
    ELSE 0

\* Variant of FoundIn: a name seen again is tagged "both".
FoundInAgain(cur, source) == "both"

\* rec["found_in"] = "both" if rec["found_in"] != source else rec["found_in"]
FoundIn(cur, source) == IF cur # source THEN "both" ELSE cur

\* if len(child["code_block"]) < len(rec["code_block"]): rec[...] = child[...]
Shorter(cur, inc) == IF Len(inc) < Len(cur) THEN inc ELSE cur

\* Variant of KeepFlag: the flag of the last occurrence is stored.
LastFlag(cur, inc) == inc

\* if rec[FLAG_FIELD] or existing[FLAG_FIELD]: existing[FLAG_FIELD] = True
KeepFlag(cur, inc) == inc \/ cur

\* The else branch of _add_from.
AddFromUpdate(rec, child, source) ==
    [rec EXCEPT !.found_in     = FoundIn(@, source),
                !.code_block   = Shorter(@, child.code_block),
                !.code_snippet = Shorter(@, child.code_snippet)]

\* The else branch of _push.
PushUpdate(existing, rec, source) ==
    LET flag == KeepFlag(existing.requires_definition_expansion, rec.requires_definition_expansion)
    IN [existing EXCEPT !.found_in     = FoundIn(@, source),
                        !.code_block   = Shorter(@, rec.code_block),
                        !.code_snippet = Shorter(@, rec.code_snippet),
                        !.requires_definition_expansion = flag,
                        !.further_expand = flag,
                        !.child_type   = IF flag THEN "Method Definition" ELSE @]

\* One iteration of either loop for the record rec built from the item.
Store(merged, name, rec, source) ==
    IF name = <<>> THEN merged
    ELSE IF Position(merged, name) = 0 THEN Append(merged, rec)
    ELSE [merged EXCEPT ![Position(merged, name)] =
              IF kind = "method_calls" THEN AddFromUpdate(@, rec, source)
              ELSE PushUpdate(@, rec, source)]

RECURSIVE _add_from(_, _, _)
_add_from(merged, source, its) ==
    IF its = <<>> THEN merged
    ELSE _add_from(Store(merged, Strip(its[1].child_name),
                         ChildRecord(Strip(its[1].child_name), "", Strip(its[1].code_snippet), Strip(its[1].code_block), FALSE, source),
                         source),
                   source, Tail(its))

RECURSIVE _push(_, _, _)
_push(merged, its, source) ==
    IF its = <<>> THEN merged
    ELSE _push(Store(merged, Strip(its[1].child_name),
                     PushRecord(Strip(its[1].child_name), its[1], source),
                     source),
               Tail(its), source)

\* if not merged and (out_a.mode == "EXTERNAL" or out_b.mode == "EXTERNAL")
Synthesized(merged, req, out_a, out_b) ==
    IF merged = <<>> /\ (out_a.mode = "EXTERNAL" \/ out_b.mode = "EXTERNAL")
    THEN << [child_name |-> req.object_name,
             child_type |-> "Method Definition",
             code_snippet |-> req.java_code_line_content,
             code_block |-> req.java_code_line_content,
             further_expand |-> TRUE,
             found_in |-> IF out_a.mode = "EXTERNAL" THEN "original" ELSE "processed",
             requires_definition_expansion |-> TRUE] >>
    ELSE merged

\* [merged[k] for k in sorted(merged.keys())]
SortedByChildName(merged) ==
    LET ks == SortedStrs([i \in 1..Len(merged) |-> merged[i].child_name])
    IN [i \in 1..Len(ks) |-> merged[Position(merged, ks[i])]]

\* The items and outputs the merges are run on: one name three times (once
\* with blanks around it, once with empty texts), a second name, a blank name.
MDItems ==
    { MDItem(Str_b, Str_s, Str_x, FALSE),
      MDItem(<<32>> \o Str_b, Empty, Empty, FALSE),
      MDItem(Str_b, Str_high, Str_x \o Str_x, TRUE),
      MDItem(Str_b \o <<32>>, <<32>> \o Str_x, Str_s, FALSE),
      MDItem(Str_a, Str_s, Str_x, TRUE),
      MDItem(Str_a, Empty, Str_x, FALSE),
      MDItem(<<32>>, Str_s, Str_x, TRUE) }

MCItems == {MCItem(it.child_name, it.code_snippet, it.code_block) : it \in MDItems}

Modes == {"EXTERNAL", "SAME_CLASS"}

RunOuts(k, n) ==
    IF k = "method_calls"
    THEN {RunOut(l, "") : l \in ListsUpTo(MCItems, n)}
    ELSE {RunOut(l, m) : l \in ListsUpTo(MDItems, n), m \in Modes}

MethodRequests == { [object_name |-> Str_a, java_code_line_content |-> Str_x], [object_name |-> Str_b, java_code_line_content |-> Empty] }

FoundInInit ==
    /\ kind \in {"method_calls", "method_definition"}
    /\ request \in MethodRequests
    /\ argA \in RunOuts(kind, MaxLen)
    /\ argB \in RunOuts(kind, MaxLen - Len(argA.children))
    /\ a = argA
    /\ b = argB
    /\ out = <<>>
    /\ pc = "call"
    /\ candidates = <<>>
    /\ retry = TRUE
    /\ attempt = 0
    /\ calls = <<>>
    /\ explained_json = <<>>
    /\ outcome = NoOutcome
    /\ NestedIdle
    /\ NormIdle
    /\ PairIdle

\* The items are read (it.child_name.strip() builds new strings): out_a and
\* out_b stay as they were.
Merged(result) ==
    /\ out' = result
    /\ pc' = "merged"
    /\ UNCHANGED <<kind, argA, argB, a, b>>
    /\ UNCHANGED <<nestedVars, normVars, extractVars, pairVars>>

\* _add_from("original", out_a.children); _add_from("processed", ...)
AddFromCall ==
    /\ pc = "call"
    /\ kind = "method_calls"
    /\ Merged(SortedByChildName(_add_from(_add_from(<<>>, "original", a.children), "processed", b.children)))

\* _push(out_a.children, "original"); _push(out_b.children, "processed")
PushCall ==
    /\ pc = "call"
    /\ kind = "method_definition"
    /\ Merged(SortedByChildName(Synthesized(_push(_push(<<>>, a.children, "original"), b.children, "processed"), request, a, b)))

FoundInNext ==
    \/ AddFromCall
    \/ PushCall

SpecFoundIn == FoundInInit /\ [][FoundInNext]_vars

----------------------------------------------------------------------------
(* C27 - C29: the merge by child_name *)

RunItems == argA.children \o argB.children

\* The trimmed non-empty names of a list of items.
TrimmedNames(its) == {Strip(its[i].child_name) : i \in 1..Len(its)} \ {<<>>}

\* The items returned under a name, run A first, in the order returned.
Occurrences(name) == SelectSeq(RunItems, LAMBDA it : Strip(it.child_name) = name)

\* The record was built from run output (it is not the synthesized one).
FromRuns(rec) == rec.child_name \in TrimmedNames(RunItems)

Blocks(occ) == [j \in 1..Len(occ) |-> Strip(occ[j].code_block)]

Snippets(occ) == [j \in 1..Len(occ) |-> Strip(occ[j].code_snippet)]

\* C27: the record of a name ends with the first shortest non-empty
\* code_block and code_snippet among the occurrences of the name; an empty
\* incoming text never replaces a non-empty stored one.
C27_ShortestNonEmpty ==
    pc = "merged" =>
        \A i \in 1..Len(out) :
            FromRuns(out[i]) =>
                /\ out[i].code_block = FirstShortest(Blocks(Occurrences(out[i].child_name)))
                /\ out[i].code_snippet = FirstShortest(Snippets(Occurrences(out[i].child_name)))

\* C28: a record built from run output is tagged "both" exactly when both
\* runs returned its trimmed name, "original" when only run A did and
\* "processed" when only run B did, however often a run repeats the name;
\* every name returned has its record, and the records are in strictly
\* increasing order of name.
C28_FoundInTags ==
    pc = "merged" =>
        /\ \A i \in 1..Len(out) :
              FromRuns(out[i]) =>
                  LET inA == out[i].child_name \in TrimmedNames(argA.children)
                      inB == out[i].child_name \in TrimmedNames(argB.children)
                  IN /\ (out[i].found_in = "both") = (inA /\ inB)
                     /\ (out[i].found_in = "original") = (inA /\ ~inB)
                     /\ (out[i].found_in = "processed") = (inB /\ ~inA)
        /\ TrimmedNames(RunItems) \subseteq {out[i].child_name : i \in 1..Len(out)}
        /\ \A i, j \in 1..Len(out) : i < j => StrLess(out[i].child_name, out[j].child_name)
        /\ (TrimmedNames(RunItems) # {}) => \A i \in 1..Len(out) : FromRuns(out[i])

\* Run A returned one name twice and run B returned it too; another name
\* came from one run only.
C28_Witness ==
    /\ pc = "merged"
    /\ Len(out) = 1
    /\ out[1].found_in = "both"
    /\ Len(SelectSeq(argA.children, LAMBDA it : Strip(it.child_name) = out[1].child_name)) = 2

\* C29: every record extract_method_definition_children returns has
\* requires_definition_expansion equal to further_expand and child_type
\* "Method Definition" exactly when the flag is true, "Method Call"
\* otherwise; the flag is true when any occurrence of the name had it.
C29_ExpansionFlag ==
    (kind = "method_definition" /\ pc = "merged") =>
        \A i \in 1..Len(out) :
            /\ out[i].requires_definition_expansion = out[i].further_expand
            /\ out[i].child_type = (IF out[i].requires_definition_expansion THEN "Method Definition" ELSE "Method Call")
            /\ (\E j \in 1..Len(Occurrences(out[i].child_name)) :
                    Occurrences(out[i].child_name)[j].requires_definition_expansion)
                  => out[i].requires_definition_expansion

\* A name whose first occurrence asks for expansion and whose second does
\* not.
C29_Witness ==
    /\ kind = "method_definition"
    /\ pc = "merged"
    /\ \E i \in 1..Len(out) :
          /\ Len(Occurrences(out[i].child_name)) >= 2
          /\ Occurrences(out[i].child_name)[1].requires_definition_expansion
          /\ ~Occurrences(out[i].child_name)[2].requires_definition_expansion

----------------------------------------------------------------------------
(* C30: in-place mutation is confined to first occurrences *)

\* The records of A then B as the caller holds them after the call.
InputsNow == a \o b

\* Position i holds the first record of its key in A-then-B order.
FirstOccurrence(i) == \A j \in 1..(i - 1) : KeyOf(Inputs[j]) # KeyOf(Inputs[i])

\* C30: after merge(A, B) both lists have the length and the keys, position
\* by position, they had; a record that arrived with a key already present
\* has all the field values it had; the records returned are the first
\* occurrences of the keys, with the values they have now.
C30_MutationConfined ==
    Done =>
        /\ Len(a) = Len(argA)
        /\ Len(b) = Len(argB)
        /\ \A i \in 1..Len(Inputs) :
              /\ KeyOf(InputsNow[i]) = KeyOf(Inputs[i])
              /\ ~FirstOccurrence(i) => InputsNow[i] = Inputs[i]
              /\ FirstOccurrence(i) => \E j \in 1..Len(out) : out[j] = InputsNow[i]
        /\ \A j \in 1..Len(out) :
              \E i \in 1..Len(Inputs) : FirstOccurrence(i) /\ out[j] = InputsNow[i]

\* The first record of A was overwritten by a record of B with its key,
\* which differs from it and kept its values.
C30_Witness ==
    /\ Done
    /\ Len(argA) >= 1
    /\ a[1] # argA[1]
    /\ \E j \in 1..Len(argB) :
          /\ KeyOf(argB[j]) = KeyOf(argA[1])
          /\ argB[j] # argA[1]
          /\ b[j] = argB[j]

====
